---- MODULE Spec2Model ----
(***************************************************************************)
(* A state-machine model of the sequence-aware story recommender           *)
(* (src/rec2.py, class StoryRecommender) and of the way the web front end  *)
(* (src/app.py) drives it.                                                 *)
(*                                                                         *)
(* Conventions                                                             *)
(*   - Optional[T] is a sequence of length <= 1: None == <<>>, a value v   *)
(*     is Some(v) == <<v>>.                                                *)
(*   - A Python dict is a function whose DOMAIN is the set of its keys.    *)
(*   - Mood scores and mood deltas are integers in tenths (6.0 is 60).     *)
(*   - Theme-interaction weights are integers in hundredths (0.1 is 10).   *)
(*   - A datetime is an integer number of minutes.                         *)
(*   - StoryTransition objects live in `heap`; lists that hold transitions *)
(*     hold heap indices, so that two lists sharing one Python object      *)
(*     share one index and two equal copies are two indices.               *)
(*   - A decayed statistic (np.mean / weighted mean of value * 0.5 **      *)
(*     (days_ago / half_life)) is kept as the list of its samples          *)
(*     [value, age], age being datetime.now() minus the sample's           *)
(*     timestamp at the moment the statistic was computed.                 *)
(***************************************************************************)
EXTENDS Integers, Sequences, FiniteSets, TLC

VARIABLES
    stories,                  \* self.stories: id -> Story
    users,                    \* self.users: id -> UserProfile
    events,                   \* self.events: the event log
    story_transitions,        \* self.story_transitions (heap indices)
    global_transition_graph,  \* from id -> to id -> list of heap indices
    story_similarity_cache,   \* self._story_similarity_cache
    theme_to_stories,         \* self._theme_to_stories: theme -> list of ids
    heap,                     \* the StoryTransition objects
    now,                      \* the wall clock, datetime.now()
    config,                   \* the half-lives and the transition window of the engine
    snapshot,                 \* the last snapshot save_state returned
    reference,                \* a second engine given the same calls: without the load_state
                              \* calls, or at another wall-clock time
    call,                     \* the last call made on the engine and its outcome
    running                   \* the get_recommendations calls in progress, by thread

vars == <<stories, users, events, story_transitions, global_transition_graph,
          story_similarity_cache, theme_to_stories, heap, config, now, snapshot,
          reference, call, running>>

(***************************************************************************)
(* Bounds of the model and constants of the program                        *)
(***************************************************************************)
MaxEvents == 3
MaxScenarioEvents == 5
MaxRoundTripEvents == 3
MaxReloadEvents == 4
MaxCatalogEvents == 1
MaxStoryAdds == 2
MaxQueries == 1
MaxSnapshots == 1
MaxViews == 11
MaxRankingEvents == 3
MaxScoringEvents == 3
MaxSliderEvents == 2
MaxMoodEvents == 3
MaxConfigEvents == 2
MaxConcurrentEvents == 2
MaxReplayEvents == 3
MaxDecayEvents == 1
MaxBackfillEvents == 5
MaxHalfLives == 1076
MaxThemeEvents == 3
MaxBucketEvents == 3
MaxMixEvents == 3
MaxPathEvents == 4
MaxTrendEvents == 11

event_half_life_days == 30
mood_half_life_days == 14
transition_window_minutes == 1440
n_recommendations == 8
default_recommendation_mix == 50
RecentViewsWindow == 10
SimScale == 120

StoryOrder == <<"S1", "S2">>
UserOrder == <<"u1", "u2">>
Title(story_id) == story_id
\* the catalog the front end adds: <<id, theme, tags>>
Catalog == << <<"S1", "mystery", {"calm"}>>, <<"S2", "nature", {"calm"}>> >>

(***************************************************************************)
(* Optional values and dicts                                               *)
(***************************************************************************)
None == <<>>
Some(v) == <<v>>
EmptyMap == [k \in {} |-> 0]
Put(f, k, v) == [j \in DOMAIN f \cup {k} |-> IF j = k THEN v ELSE f[j]]
Get(f, k, default) == IF k \in DOMAIN f THEN f[k] ELSE default
\* defaultdict(list)[k].append(v)
AppendAt(f, k, v) == Put(f, k, Append(Get(f, k, <<>>), v))
Last(s) == s[Len(s)]

RECURSIVE Flatten(_)
Flatten(ss) == IF ss = <<>> THEN <<>> ELSE Head(ss) \o Flatten(Tail(ss))

RECURSIVE SeqSum(_)
SeqSum(s) == IF s = <<>> THEN 0 ELSE Head(s) + SeqSum(Tail(s))

RECURSIVE GCD(_, _)
GCD(a, b) == IF b = 0 THEN a ELSE GCD(b, a % b)


(***************************************************************************)
(* Entity model                                                            *)
(***************************************************************************)
\* StoryTransition.__init__: mood_delta is computed when both moods are given
StoryTransition(from_story_id, to_story_id, user_id, timestamp, mood_before, mood_after, time_between_minutes) ==
    [from_story_id |-> from_story_id,
     to_story_id |-> to_story_id,
     user_id |-> user_id,
     timestamp |-> timestamp,
     mood_before |-> mood_before,
     mood_after |-> mood_after,
     time_between_minutes |-> time_between_minutes,
     mood_delta |-> IF mood_before # None /\ mood_after # None
                    THEN Some(mood_after[1] - mood_before[1])
                    ELSE None]

\* Story.__init__: every derived statistic starts empty
Story(story_id, title, theme, tags) ==
    [id |-> story_id,
     title |-> title,
     theme |-> theme,
     tags |-> tags,
     mood_associations |-> <<>>,
     avg_mood_change |-> None,
     mood_effectiveness |-> EmptyMap,
     best_next_stories |-> EmptyMap,
     best_next_themes |-> EmptyMap]

\* UserProfile.__init__
UserProfile(user_id) ==
    [user_id |-> user_id,
     viewed_stories |-> EmptyMap,
     completed_stories |-> EmptyMap,
     favorited_stories |-> EmptyMap,
     theme_interactions |-> EmptyMap,
     mood_history |-> <<>>,
     current_mood |-> None,
     story_mood_impact |-> EmptyMap,
     recent_story_views |-> <<>>,
     recommendation_mix |-> default_recommendation_mix,
     mood_trend |-> None,
     mood_volatility |-> None,
     story_sequences |-> <<>>,
     preferred_transitions |-> EmptyMap,
     theme_transition_preferences |-> EmptyMap,
     last_completed_story |-> None,
     last_completed_timestamp |-> None]

\* AnalyticsEvent.__init__: data holds the keyword arguments that were given
AnalyticsEvent(user_id, event_type, timestamp, data) ==
    [user_id |-> user_id, event_type |-> event_type, timestamp |-> timestamp,
     data |-> data]

NoData == [story_id |-> None, mood_score |-> None, theme |-> None, position |-> None]

\* The engine as one value: StoryRecommender's fields and its transition objects
Engine(st, us, ev, tr, gr, ca, th, hp, cf) ==
    [stories |-> st, users |-> us, events |-> ev, story_transitions |-> tr,
     global_transition_graph |-> gr, story_similarity_cache |-> ca,
     theme_to_stories |-> th, heap |-> hp, config |-> cf]

\* the configuration the front end constructs the engine with
AppConfig ==
    [event_half_life_days |-> event_half_life_days,
     mood_half_life_days |-> mood_half_life_days,
     transition_window_minutes |-> transition_window_minutes]

\* StoryRecommender.__init__: the three values are stored as they are given
StoryRecommender(cf) ==
    Engine(EmptyMap, EmptyMap, <<>>, <<>>, EmptyMap, EmptyMap, EmptyMap, <<>>, cf)

\* recommender = StoryRecommender(30.0, 14.0, 1440.0)
NewEngine == StoryRecommender(AppConfig)

Self == Engine(stories, users, events, story_transitions, global_transition_graph,
               story_similarity_cache, theme_to_stories, heap, config)

(***************************************************************************)
(* Aggregation engine                                                      *)
(***************************************************************************)
Max(S) == CHOOSE x \in S : \A y \in S : y <= x
\* a clamp that leaves out the upper limit
ClampBelow(lo, hi, v) == IF v < lo THEN lo ELSE v

\* max(lo, min(hi, v))
Clamp(lo, hi, v) == IF v < lo THEN lo ELSE IF v > hi THEN hi ELSE v

\* One decayed sample: value * 0.5 ** (days_ago / half_life), days_ago taken
\* from datetime.now() (wall) and the observation's timestamp
Sample(value, timestamp, wall) == [value |-> value, age |-> wall - timestamp]

\* the improvement taken after current_mood was already overwritten
ImprovementFromNewMood(mood_before, mood_after) == mood_after - mood_after

\* _calculate_mood_improvement
_calculate_mood_improvement(mood_before, mood_after) == mood_after - mood_before

\* mood_ranges of _calculate_mood_effectiveness, in the dict's order; bounds in tenths
mood_ranges ==
    << <<"very_low", 10, 30>>, <<"low", 30, 50>>, <<"medium", 50, 70>>,
       <<"high", 70, 90>>, <<"very_high", 90, 100>> >>

\* the first range with low <= value < high, if any
EffectivenessRange(value) ==
    LET hits == {i \in 1..Len(mood_ranges) :
                    mood_ranges[i][2] <= value /\ value < mood_ranges[i][3]}
    IN IF hits = {} THEN None
       ELSE Some(mood_ranges[CHOOSE i \in hits : \A j \in hits : i <= j][1])

\* _calculate_mood_effectiveness: the ranges that got a sample are overwritten
_calculate_mood_effectiveness(story, wall) ==
    LET assoc == story.mood_associations
        inRange(r) == SelectSeq(assoc, LAMBDA a : EffectivenessRange(a[1]) = Some(r))
        hit == {mood_ranges[i][1] : i \in 1..Len(mood_ranges)}
        touched == {r \in hit : inRange(r) # <<>>}
        improvements(r) ==
            [k \in 1..Len(inRange(r)) |->
                Sample(_calculate_mood_improvement(inRange(r)[k][1], inRange(r)[k][2]),
                       inRange(r)[k][3], wall)]
    IN IF assoc = <<>> THEN story
       ELSE [story EXCEPT !.mood_effectiveness =
                [r \in DOMAIN @ \cup touched |->
                    IF r \in touched THEN improvements(r) ELSE @[r]]]

\* _update_story_mood_stats
_update_story_mood_stats(E, story_id, wall) ==
    LET story == E.stories[story_id]
        assoc == story.mood_associations
        weighted == [k \in 1..Len(assoc) |->
                        Sample(_calculate_mood_improvement(assoc[k][1], assoc[k][2]),
                               assoc[k][3], wall)]
    IN IF assoc = <<>> THEN E
       ELSE [E EXCEPT !.stories[story_id] =
                _calculate_mood_effectiveness(
                    [story EXCEPT !.avg_mood_change = Some(weighted)], wall)]

\* the decayed samples of the transitions in ids that carry a mood_delta
DeltaSamples(E, ids, wall) ==
    LET withDelta == SelectSeq(ids, LAMBDA i : E.heap[i].mood_delta # None)
    IN [k \in 1..Len(withDelta) |->
            Sample(E.heap[withDelta[k]].mood_delta[1], E.heap[withDelta[k]].timestamp, wall)]

\* _update_story_transition_stats
_update_story_transition_stats(E, from_story_id, wall) ==
    IF from_story_id \notin DOMAIN E.stories THEN E
    ELSE
    LET transitions == Get(E.global_transition_graph, from_story_id, EmptyMap)
        effects(to) == DeltaSamples(E, transitions[to], wall)
        next_ids == {to \in DOMAIN transitions : effects(to) # <<>>}
        known == next_ids \cap DOMAIN E.stories
        next_themes == {E.stories[to].theme : to \in known}
        themeEffects(th) ==
            Flatten([k \in 1..Len(StoryOrder) |->
                IF StoryOrder[k] \in known /\ E.stories[StoryOrder[k]].theme = th
                THEN effects(StoryOrder[k]) ELSE <<>>])
    IN [E EXCEPT
          \* self.global_transition_graph[from_story_id] on a defaultdict
          !.global_transition_graph = Put(@, from_story_id, transitions),
          !.stories[from_story_id].best_next_stories = [to \in next_ids |-> effects(to)],
          !.stories[from_story_id].best_next_themes = [th \in next_themes |-> themeEffects(th)]]

\* the trend taken from the slope over the whole mood history
TrajectoryOfWholeHistory(user) ==
    LET h == user.mood_history
        n == Len(h)
        sx == SeqSum([i \in 1..n |-> i - 1])
        sy == SeqSum([i \in 1..n |-> h[i][2]])
        slopeNum == n * SeqSum([i \in 1..n |-> (i - 1) * h[i][2]]) - sx * sy
        slopeDen == n * SeqSum([i \in 1..n |-> (i - 1) * (i - 1)]) - sx * sx
        varNum == n * SeqSum([i \in 1..n |-> h[i][2] * h[i][2]]) - sy * sy
        g == GCD(varNum, 100 * n * n)
    IN IF n < 3
       THEN [user EXCEPT !.mood_trend = Some("stable"),
                         !.mood_volatility = Some([num |-> 0, den |-> 1])]
       ELSE [user EXCEPT
                !.mood_trend = IF slopeNum > 2 * slopeDen THEN Some("improving")
                               ELSE IF slopeNum < -2 * slopeDen THEN Some("declining")
                               ELSE Some("stable"),
                !.mood_volatility = Some([num |-> varNum \div g,
                                          den |-> (100 * n * n) \div g])]

\* UserProfile.update_mood_trajectory: the least-squares slope of the last 10
\* mood values against their index, compared with +-0.2; the volatility
\* (np.std) is kept as its square, the variance, a reduced fraction
update_mood_trajectory(user) ==
    LET h == user.mood_history
        n0 == Len(h)
        recent == IF n0 <= 10 THEN h ELSE SubSeq(h, n0 - 9, n0)
        n == Len(recent)
        y == [i \in 1..n |-> recent[i][2]]
        sx == SeqSum([i \in 1..n |-> i - 1])
        sxx == SeqSum([i \in 1..n |-> (i - 1) * (i - 1)])
        sy == SeqSum(y)
        sxy == SeqSum([i \in 1..n |-> (i - 1) * y[i]])
        syy == SeqSum([i \in 1..n |-> y[i] * y[i]])
        \* slope = slopeNum / (10 * slopeDen) in mood units per step
        slopeNum == n * sxy - sx * sy
        slopeDen == n * sxx - sx * sx
        varNum == n * syy - sy * sy
        varDen == 100 * n * n
        g == GCD(varNum, varDen)
    IN IF n0 < 3
       THEN [user EXCEPT !.mood_trend = Some("stable"),
                         !.mood_volatility = Some([num |-> 0, den |-> 1])]
       ELSE [user EXCEPT
                !.mood_trend = IF slopeNum > 2 * slopeDen THEN Some("improving")
                               ELSE IF slopeNum < -2 * slopeDen THEN Some("declining")
                               ELSE Some("stable"),
                !.mood_volatility = Some([num |-> varNum \div g, den |-> varDen \div g])]

(***************************************************************************)
(* Event ingestion                                                         *)
(***************************************************************************)
\* the window test with the boundary left out
WithinWindowStrict(time_diff, window) == time_diff < window

\* the window test of add_event: time_diff <= self.transition_window_minutes
WithinWindow(time_diff, window) == time_diff <= window

\* the mood_before search of _record_story_transition: the latest entry of
\* mood_history whose timestamp is at or before the previous completion
MoodBeforeAt(user) ==
    LET h == user.mood_history
        at == {i \in 1..Len(h) : h[i][1] <= user.last_completed_timestamp[1]}
    IN IF at = {} THEN None ELSE Some(h[Max(at)][2])

\* a new transition without a mood_after
MoodAfterLeftOpen(user) == None

\* mood_after of a new transition: the current mood, if there is one
MoodAfterAtCreation(user) == user.current_mood

\* a transition recorded everywhere but in preferred_transitions
RecordedWithoutIndex(E, user_id, from_story_id, to_story_id, timestamp, time_between_minutes, wall) ==
    LET obj == Len(E.heap) + 1
        E1 == [E EXCEPT
                 !.heap = Append(@, StoryTransition(from_story_id, to_story_id, user_id,
                                                    timestamp, MoodBeforeAt(E.users[user_id]),
                                                    MoodAfterAtCreation(E.users[user_id]),
                                                    time_between_minutes)),
                 !.users[user_id].story_sequences = Append(@, obj),
                 !.story_transitions = Append(@, obj),
                 !.global_transition_graph =
                     Put(@, from_story_id,
                         AppendAt(Get(@, from_story_id, EmptyMap), to_story_id, obj))]
    IN _update_story_transition_stats(E1, from_story_id, wall)

\* a transition stored in the user's profile only
RecordedInProfileOnly(E, user_id, from_story_id, to_story_id, timestamp, time_between_minutes, wall) ==
    [E EXCEPT
        !.heap = Append(@, StoryTransition(from_story_id, to_story_id, user_id, timestamp,
                                           MoodBeforeAt(E.users[user_id]),
                                           MoodAfterAtCreation(E.users[user_id]),
                                           time_between_minutes)),
        !.users[user_id].story_sequences = Append(@, Len(E.heap) + 1)]

\* _record_story_transition
_record_story_transition(E, user_id, from_story_id, to_story_id, timestamp, time_between_minutes, wall) ==
    LET user == E.users[user_id]
        transition == StoryTransition(from_story_id, to_story_id, user_id, timestamp,
                                      MoodBeforeAt(user), MoodAfterAtCreation(user),
                                      time_between_minutes)
        obj == Len(E.heap) + 1
        bothKnown == from_story_id \in DOMAIN E.stories /\ to_story_id \in DOMAIN E.stories
        from_theme == E.stories[from_story_id].theme
        to_theme == E.stories[to_story_id].theme
        user1 == [user EXCEPT
                    !.story_sequences = Append(@, obj),
                    !.preferred_transitions =
                        AppendAt(@, from_story_id,
                                 <<to_story_id, transition.mood_delta, timestamp>>),
                    !.theme_transition_preferences =
                        IF bothKnown /\ transition.mood_delta # None
                        THEN Put(@, from_theme,
                                 AppendAt(Get(@, from_theme, EmptyMap), to_theme,
                                          <<transition.mood_delta[1], timestamp>>))
                        ELSE @]
        E1 == [E EXCEPT
                 !.heap = Append(@, transition),
                 !.users[user_id] = user1,
                 !.story_transitions = Append(@, obj),
                 !.global_transition_graph =
                     Put(@, from_story_id,
                         AppendAt(Get(@, from_story_id, EmptyMap), to_story_id, obj))]
    IN _update_story_transition_stats(E1, from_story_id, wall)

\* the entry of preferred_transitions[from] that the backfill rewrites: the
\* first one for this story, without a delta, with the transition's timestamp
BackfillEntry(entries, story_id, timestamp) ==
    LET hits == {i \in 1..Len(entries) :
                    /\ entries[i][1] = story_id
                    /\ entries[i][2] = None
                    /\ entries[i][3] = timestamp}
    IN IF hits = {} THEN 0 ELSE CHOOSE i \in hits : \A j \in hits : i <= j

\* the guard without the test for a mood_after that is already there
BackfillAppliesToClosed(last_transition, story_id) ==
    last_transition.to_story_id = story_id

\* the guard without the test of the destination
BackfillAppliesToAnyStory(last_transition, story_id) == last_transition.mood_after = None

\* the guard of _update_recent_transition_mood on the user's last transition
BackfillApplies(last_transition, story_id) ==
    last_transition.to_story_id = story_id /\ last_transition.mood_after = None

\* _update_recent_transition_mood
_update_recent_transition_mood(E, user_id, story_id, mood_after, wall) ==
    LET user == E.users[user_id] IN
    IF user.story_sequences = <<>> THEN E
    ELSE
    LET obj == Last(user.story_sequences)
        last_transition == E.heap[obj]
        from_story == last_transition.from_story_id
        delta == mood_after - last_transition.mood_before[1]
        entries == Get(user.preferred_transitions, from_story, <<>>)
        i == BackfillEntry(entries, story_id, last_transition.timestamp)
        E1 == [E EXCEPT !.heap[obj].mood_after = Some(mood_after)]
        E2 == [E1 EXCEPT
                 !.heap[obj].mood_delta = Some(delta),
                 !.users[user_id].preferred_transitions =
                     Put(@, from_story,
                         IF i = 0 THEN entries
                         ELSE [entries EXCEPT ![i] = <<story_id, Some(delta), @[3]>>])]
    IN IF ~BackfillApplies(last_transition, story_id) THEN E
       ELSE IF last_transition.mood_before = None THEN E1
       ELSE _update_story_transition_stats(E2, from_story, wall)

\* a truthy story id, as in `if user.last_completed_story and ...`
Truthy(opt) == opt # None /\ opt[1] # ""

\* a theme sample appended whether or not the story is in the catalog
ThemeSampleForAnyStory(E, user, story_id, weight, timestamp) ==
    [user EXCEPT !.theme_interactions =
        AppendAt(@, IF story_id \in DOMAIN E.stories THEN E.stories[story_id].theme ELSE "",
                 <<weight, timestamp>>)]

\* the theme sample appended when the story is in the catalog
ThemeSample(E, user, story_id, weight, timestamp) ==
    IF story_id \in DOMAIN E.stories
    THEN [user EXCEPT !.theme_interactions =
            AppendAt(@, E.stories[story_id].theme, <<weight, timestamp>>)]
    ELSE user

\* add_event, the 'view' branch
OnView(E, ev) ==
    LET story_id == ev.data.story_id[1]
        user == E.users[ev.user_id]
        user1 == [user EXCEPT
                    !.viewed_stories = Put(@, story_id, ev.timestamp),
                    !.recent_story_views = Append(@, <<ev.timestamp, story_id>>)]
    IN [E EXCEPT !.users[ev.user_id] = ThemeSample(E, user1, story_id, 10, ev.timestamp)]

\* the 'complete' branch without its last two assignments
CompletedWithoutLast(E, ev, wall) ==
    [E EXCEPT !.users[ev.user_id] =
        ThemeSample(E, [@ EXCEPT !.completed_stories =
                            Put(@, ev.data.story_id[1], ev.timestamp)],
                    ev.data.story_id[1], 100, ev.timestamp)]

\* add_event, the 'complete' branch
OnComplete(E, ev, wall) ==
    LET story_id == ev.data.story_id[1]
        user == E.users[ev.user_id]
        user1 == ThemeSample(E, [user EXCEPT !.completed_stories =
                                    Put(@, story_id, ev.timestamp)],
                             story_id, 100, ev.timestamp)
        E1 == [E EXCEPT !.users[ev.user_id] = user1]
        time_diff == ev.timestamp - user1.last_completed_timestamp[1]
        E2 == IF /\ Truthy(user1.last_completed_story)
                 /\ user1.last_completed_timestamp # None
                 /\ WithinWindow(time_diff, E.config.transition_window_minutes)
              THEN _record_story_transition(E1, ev.user_id, user1.last_completed_story[1],
                                            story_id, ev.timestamp, time_diff, wall)
              ELSE E1
    IN [E2 EXCEPT !.users[ev.user_id].last_completed_story = Some(story_id),
                  !.users[ev.user_id].last_completed_timestamp = Some(ev.timestamp)]

\* add_event, the 'mood_after' branch
OnMoodAfter(E, ev, wall) ==
    LET story_id == ev.data.story_id[1]
        mood_after == ev.data.mood_score[1]
        user == E.users[ev.user_id]
        current == user.current_mood[1]
        mood_change == _calculate_mood_improvement(current, mood_after)
        user1 == [user EXCEPT !.story_mood_impact =
                    Put(@, story_id, <<mood_change, ev.timestamp>>)]
        E1 == [E EXCEPT !.users[ev.user_id] = user1]
        E2 == IF story_id \in DOMAIN E.stories
              THEN LET E2a == [E1 EXCEPT !.stories[story_id].mood_associations =
                                  Append(@, <<current, mood_after, ev.timestamp>>)]
                       E2b == _update_story_mood_stats(E2a, story_id, wall)
                   IN [E2b EXCEPT !.users[ev.user_id] =
                          ThemeSample(E2b, @, story_id, mood_change * 5, ev.timestamp)]
              ELSE E1
        E3 == IF user.current_mood # None
              THEN _update_recent_transition_mood(E2, ev.user_id, story_id, mood_after, wall)
              ELSE E
    IN [E3 EXCEPT !.users[ev.user_id] =
          update_mood_trajectory(
              [@ EXCEPT !.current_mood = Some(mood_after),
                        !.mood_history = Append(@, <<ev.timestamp, mood_after>>)])]

\* add_event, the 'favorite' branch
OnFavorite(E, ev) ==
    LET story_id == ev.data.story_id[1]
        user == E.users[ev.user_id]
        user1 == [user EXCEPT !.favorited_stories = Put(@, story_id, ev.timestamp)]
    IN [E EXCEPT !.users[ev.user_id] = ThemeSample(E, user1, story_id, 200, ev.timestamp)]

\* add_event, the 'mood_general' branch
OnMoodGeneral(E, ev) ==
    [E EXCEPT !.users[ev.user_id] =
        update_mood_trajectory(
            [@ EXCEPT !.current_mood = Some(ev.data.mood_score[1]),
                      !.mood_history = Append(@, <<ev.timestamp, ev.data.mood_score[1]>>)])]

\* add_event, the 'search' branch
OnSearch(E, ev) ==
    IF ev.data.theme # None
    THEN [E EXCEPT !.users[ev.user_id].theme_interactions =
            AppendAt(@, ev.data.theme[1], <<50, ev.timestamp>>)]
    ELSE E

\* add_event, the 'slider_position' branch: max(0.0, min(1.0, position))
OnSliderPosition(E, ev) ==
    [E EXCEPT !.users[ev.user_id].recommendation_mix = Clamp(0, 100, ev.data.position[1])]

\* the payload keys a branch of add_event reads with event.data[...]
RequiredKeys(event_type) ==
    CASE event_type \in {"view", "complete", "favorite"} -> {"story_id"}
      [] event_type = "mood_after" -> {"story_id", "mood_score"}
      [] event_type = "mood_general" -> {"mood_score"}
      [] event_type = "slider_position" -> {"position"}
      [] OTHER -> {}

\* event.data[key] raises KeyError for a key in RequiredKeys that is absent
MissingKey(ev) == \E k \in RequiredKeys(ev.event_type) : ev.data[k] = None

\* the first statements of add_event: the event is logged and the profile is
\* created before the event type is looked at
LogEvent(E, ev) ==
    [E EXCEPT !.events = Append(@, ev),
              !.users = IF ev.user_id \in DOMAIN @ THEN @
                        ELSE Put(@, ev.user_id, UserProfile(ev.user_id))]

\* add_event: the engine afterwards, and whether the call raised
add_event(E, ev, wall) ==
    LET E1 == LogEvent(E, ev) IN
    IF MissingKey(ev) THEN [eng |-> E1, raised |-> TRUE]
    ELSE [eng |-> CASE ev.event_type = "view" -> OnView(E1, ev)
                    [] ev.event_type = "complete" -> OnComplete(E1, ev, wall)
                    [] ev.event_type = "mood_after" -> OnMoodAfter(E1, ev, wall)
                    [] ev.event_type = "favorite" -> OnFavorite(E1, ev)
                    [] ev.event_type = "mood_general" -> OnMoodGeneral(E1, ev)
                    [] ev.event_type = "search" -> OnSearch(E1, ev)
                    [] ev.event_type = "slider_position" -> OnSliderPosition(E1, ev)
                    [] OTHER -> E1,
          raised |-> FALSE]

(***************************************************************************)
(* Catalog and similarity                                                  *)
(***************************************************************************)
\* add_story: a fresh Story replaces the entry, the id is appended to the
\* theme's list and the similarity cache is emptied
add_story(E, story_id, title, theme, tags) ==
    [E EXCEPT !.stories = Put(@, story_id, Story(story_id, title, theme, tags)),
              !.theme_to_stories = AppendAt(@, theme, story_id),
              !.story_similarity_cache = EmptyMap]

IndexOf(seq, x) == CHOOSE i \in 1..Len(seq) : seq[i] = x

\* tuple(sorted([story_id1, story_id2]))
CacheKey(story_id1, story_id2) ==
    IF IndexOf(StoryOrder, story_id1) <= IndexOf(StoryOrder, story_id2)
    THEN <<story_id1, story_id2>> ELSE <<story_id2, story_id1>>

\* the formula with the tag term left out
SimilarityOfThemes(story1, story2) ==
    IF story1.theme = story2.theme THEN SimScale \div 2 ELSE 0

\* the formula of _story_similarity, in units of 1/SimScale
SimilarityFormula(story1, story2) ==
    (IF story1.theme = story2.theme THEN SimScale \div 2 ELSE 0)
    + (IF story1.tags # {} /\ story2.tags # {}
       THEN ((SimScale \div 2) * Cardinality(story1.tags \cap story2.tags))
                \div Cardinality(story1.tags \cup story2.tags)
       ELSE 0)

\* _story_similarity: the value returned ...
_story_similarity(E, story_id1, story_id2) ==
    IF story_id1 = story_id2 THEN SimScale
    ELSE IF CacheKey(story_id1, story_id2) \in DOMAIN E.story_similarity_cache
    THEN E.story_similarity_cache[CacheKey(story_id1, story_id2)]
    ELSE IF story_id1 \notin DOMAIN E.stories \/ story_id2 \notin DOMAIN E.stories THEN 0
    ELSE SimilarityFormula(E.stories[story_id1], E.stories[story_id2])

\* ... and whether the call stores it in the cache
StoresSimilarity(E, story_id1, story_id2) ==
    /\ story_id1 # story_id2
    /\ CacheKey(story_id1, story_id2) \notin DOMAIN E.story_similarity_cache
    /\ story_id1 \in DOMAIN E.stories
    /\ story_id2 \in DOMAIN E.stories

(***************************************************************************)
(* Scoring engine: numbers                                                 *)
(*                                                                         *)
(* Scores, signal values, weights and decay factors are integers in        *)
(* thousandths (Unit); a product of two of them is rounded down to a       *)
(* thousandth.                                                             *)
(***************************************************************************)
Unit == 1000
MinutesPerDay == 1440
default_theme_half_life_days == 30

Abs(x) == IF x < 0 THEN -x ELSE x
Min(a, b) == IF a <= b THEN a ELSE b
Mul(a, b) == (a * b) \div Unit
\* a mood value or mood delta (tenths), a theme weight (hundredths), in thousandths
Tenths(v) == v * 100
Hundredths(w) == w * 10

RECURSIVE SetSum(_, _)
SetSum(S, f) ==
    IF S = {} THEN 0
    ELSE LET x == CHOOSE y \in S : TRUE IN f[x] + SetSum(S \ {x}, f)

\* np.mean of a non-empty list
Mean(values) == SeqSum(values) \div Len(values)

\* (x + 5) / 10.0
Normalized(x) == (x + 5 * Unit) \div 10

\* 0.5 ** (k / 8) for k = 0..8
HalfPowers == <<1000, 917, 841, 771, 707, 648, 595, 545, 500>>

RECURSIVE Halve(_, _)
Halve(v, times) == IF times = 0 \/ v = 0 THEN v ELSE Halve(v \div 2, times - 1)

\* decay_factor = 0.5 ** (days_ago / half_life_days), age in minutes: whole
\* half-lives halve, the rest is interpolated between eighths of a half-life
Decay(age, half_life_days) ==
    LET half_life == half_life_days * MinutesPerDay
        eighths == (age % half_life) * 8
        k == eighths \div half_life
        upper == HalfPowers[k + 1]
        lower == HalfPowers[k + 2]
    IN Halve(upper - ((upper - lower) * (eighths % half_life)) \div half_life,
             age \div half_life)

\* the number a stored statistic stands for: np.mean of value * decay ...
MeanOf(samples, half_life_days) ==
    Mean([i \in 1..Len(samples) |->
            Mul(Tenths(samples[i].value), Decay(samples[i].age, half_life_days))])

\* ... and sum(value * decay) / sum(decay) for avg_mood_change
WeightedMeanOf(samples, half_life_days) ==
    (SeqSum([i \in 1..Len(samples) |->
                Mul(Tenths(samples[i].value), Decay(samples[i].age, half_life_days))])
        * Unit)
    \div SeqSum([i \in 1..Len(samples) |-> Decay(samples[i].age, half_life_days)])

\* the keys of a dict of timestamps, sorted by timestamp (sorted(..., key=...))
SortedByTimestamp(d) ==
    CHOOSE seq \in [1..Cardinality(DOMAIN d) -> DOMAIN d] :
        /\ \A i, j \in DOMAIN seq : i # j => seq[i] # seq[j]
        /\ \A i, j \in DOMAIN seq : i < j => d[seq[i]] <= d[seq[j]]

\* UserProfile.get_recent_story_path
get_recent_story_path(user, n) ==
    LET sorted_completions == SortedByTimestamp(user.completed_stories)
        len == Len(sorted_completions)
    IN IF len <= n THEN sorted_completions
       ELSE SubSeq(sorted_completions, len - n + 1, len)

\* {**user.completed_stories, **user.favorited_stories}
Liked(user) ==
    [sid \in DOMAIN user.completed_stories \cup DOMAIN user.favorited_stories |->
        IF sid \in DOMAIN user.favorited_stories THEN user.favorited_stories[sid]
        ELSE user.completed_stories[sid]]

\* UserProfile._get_decayed_theme_scores
_get_decayed_theme_scores(user, current_time, half_life_days) ==
    [theme \in DOMAIN user.theme_interactions |->
        SeqSum([i \in 1..Len(user.theme_interactions[theme]) |->
            Mul(Hundredths(user.theme_interactions[theme][i][1]),
                Decay(current_time - user.theme_interactions[theme][i][2],
                      half_life_days))])]

\* UserProfile.get_avoided_themes, threshold -1.0, its own half-life of 30 days
get_avoided_themes(user, current_time) ==
    LET theme_scores ==
            _get_decayed_theme_scores(user, current_time, default_theme_half_life_days)
    IN {theme \in DOMAIN theme_scores : theme_scores[theme] < -Unit}

\* _get_mood_range, value in tenths
_get_mood_range(mood_value) ==
    IF mood_value < 30 THEN "very_low"
    ELSE IF mood_value < 50 THEN "low"
    ELSE IF mood_value < 70 THEN "medium"
    ELSE IF mood_value < 90 THEN "high"
    ELSE "very_high"

(***************************************************************************)
(* Scoring engine: the signals                                             *)
(***************************************************************************)
\* the weights with the floor of 0.2 applied for every mix
WeightsFloored(mix) ==
    [individual |-> IF (100 - mix) * 10 > 200 THEN (100 - mix) * 10 ELSE 200,
     collaborative |-> IF mix * 10 > 200 THEN mix * 10 ELSE 200]

\* individual_weight and collaborative_weight, mix in hundredths
Weights(mix) ==
    LET individual_weight == (100 - mix) * 10
        collaborative_weight == mix * 10
    IN IF 10 <= mix /\ mix <= 90
       THEN [individual |-> IF individual_weight > 200 THEN individual_weight ELSE 200,
             collaborative |-> IF collaborative_weight > 200 THEN collaborative_weight
                               ELSE 200]
       ELSE [individual |-> individual_weight, collaborative |-> collaborative_weight]

\* _sophisticated_mood_match
_sophisticated_mood_match(E, user, story, current_time) ==
    IF user.current_mood = None \/ story.mood_associations = <<>> THEN 0
    ELSE
    LET half_life == E.config.mood_half_life_days
        current_mood_value == user.current_mood[1]
        current_range == _get_mood_range(current_mood_value)
        assoc == story.mood_associations
        effectiveness ==
            IF current_range \in DOMAIN story.mood_effectiveness
            THEN Mul(Normalized(MeanOf(story.mood_effectiveness[current_range], half_life)),
                     3 * Unit)
            ELSE 0
        similarity(a) == Unit - (Abs(current_mood_value - a[1]) * 100) \div 9
        decay_factor(a) == Decay(current_time - a[3], half_life)
        combined_score(a) ==
            Mul(similarity(a), Unit + _calculate_mood_improvement(a[1], a[2]) * 20)
        total_weight == SeqSum([i \in 1..Len(assoc) |-> decay_factor(assoc[i])])
        weighted_avg ==
            (SeqSum([i \in 1..Len(assoc) |->
                        Mul(combined_score(assoc[i]), decay_factor(assoc[i]))]) * Unit)
            \div total_weight
        similar == IF total_weight > 0 THEN Mul(weighted_avg, 2 * Unit) ELSE 0
        avg_mood_change == WeightedMeanOf(story.avg_mood_change[1], half_life)
        trajectory ==
            IF ~Truthy(user.mood_trend) \/ story.avg_mood_change = None THEN 0
            ELSE IF user.mood_trend[1] = "declining" /\ avg_mood_change > 0
            THEN Mul(avg_mood_change, 2 * Unit)
            ELSE IF user.mood_trend[1] = "improving" /\ avg_mood_change > 0
            THEN Mul(avg_mood_change, 1500)
            ELSE IF user.mood_trend[1] = "stable" THEN Normalized(avg_mood_change)
            ELSE 0
        \* _mood_volatility > 1.5, the variance being kept: variance > 2.25
        volatile == /\ user.mood_volatility # None
                    /\ 4 * user.mood_volatility[1].num > 9 * user.mood_volatility[1].den
        volatility ==
            IF volatile /\ story.avg_mood_change # None /\ avg_mood_change > Unit
            THEN Unit ELSE 0
    IN effectiveness + similar + trajectory + volatility

\* the decayed deltas of the entries of a preferred_transitions list that lead
\* to to_id and carry a mood_delta
DecayedDeltas(entries, to_id, current_time, half_life_days) ==
    LET hits == SelectSeq(entries, LAMBDA e : e[1] = to_id /\ e[2] # None)
    IN [i \in 1..Len(hits) |->
            [delta |-> Tenths(hits[i][2][1]),
             decay |-> Decay(current_time - hits[i][3], half_life_days)]]

\* _evaluate_path_continuation
_evaluate_path_continuation(E, path, candidate_id, current_time) ==
    LET followers == SelectSeq(UserOrder, LAMBDA u :
            /\ u \in DOMAIN E.users
            /\ Len(get_recent_story_path(E.users[u], Len(path) + 1)) >= Len(path) + 1
            /\ SubSeq(get_recent_story_path(E.users[u], Len(path) + 1), 1, Len(path)) = path
            /\ Last(get_recent_story_path(E.users[u], Len(path) + 1)) = candidate_id)
        of(u) == DecayedDeltas(Get(E.users[u].preferred_transitions, Last(path), <<>>),
                               candidate_id, current_time, E.config.mood_half_life_days)
        matching_paths ==
            Flatten([k \in 1..Len(followers) |->
                [i \in 1..Len(of(followers[k])) |->
                    Mul(of(followers[k])[i].delta, of(followers[k])[i].decay)]])
    IN IF Len(path) < 2 \/ matching_paths = <<>> THEN 0
       ELSE Mul(Normalized(Mean(matching_paths)), 2 * Unit)

\* _sequence_based_score
_sequence_based_score(E, user, candidate_story, current_time) ==
    IF ~Truthy(user.last_completed_story)
       \/ user.last_completed_story[1] \notin DOMAIN E.stories
    THEN 0
    ELSE
    LET half_life == E.config.mood_half_life_days
        last_id == user.last_completed_story[1]
        last_story == E.stories[last_id]
        personal_transitions ==
            DecayedDeltas(Get(user.preferred_transitions, last_id, <<>>),
                          candidate_story.id, current_time, half_life)
        personal ==
            SeqSum([i \in 1..Len(personal_transitions) |->
                Mul(Mul(Normalized(personal_transitions[i].delta), 3 * Unit),
                    personal_transitions[i].decay)])
        global ==
            IF candidate_story.id \in DOMAIN last_story.best_next_stories
            THEN Mul(Normalized(MeanOf(last_story.best_next_stories[candidate_story.id],
                                       half_life)), 2500)
            ELSE 0
        theme_deltas ==
            Get(Get(user.theme_transition_preferences, last_story.theme, EmptyMap),
                candidate_story.theme, <<>>)
        personal_theme ==
            IF theme_deltas = <<>> THEN 0
            ELSE Mul(Normalized(Mean([i \in 1..Len(theme_deltas) |->
                        Mul(Tenths(theme_deltas[i][1]),
                            Decay(current_time - theme_deltas[i][2], half_life))])),
                     2 * Unit)
        global_theme ==
            IF candidate_story.theme \in DOMAIN last_story.best_next_themes
            THEN Mul(Normalized(MeanOf(last_story.best_next_themes[candidate_story.theme],
                                       half_life)), 1500)
            ELSE 0
        recent_path == get_recent_story_path(user, 2)
        path_score ==
            IF Len(recent_path) = 2
            THEN _evaluate_path_continuation(E, recent_path, candidate_story.id, current_time)
            ELSE 0
        total_score == personal + global + personal_theme + global_theme + path_score
        minutes_since == current_time - user.last_completed_timestamp[1]
    IN IF user.last_completed_timestamp # None /\ minutes_since < 60
       THEN Mul(total_score, Unit + ((60 - minutes_since) * 500) \div 60)
       ELSE total_score

\* the collaborative sequence score without the test that skips the user
SequenceScoreOfAllUsers(E, user, candidate_story, current_time) ==
    IF ~Truthy(user.last_completed_story) THEN 0
    ELSE
    LET all == SelectSeq(UserOrder, LAMBDA u : u \in DOMAIN E.users)
        of(u) == DecayedDeltas(Get(E.users[u].preferred_transitions,
                                   user.last_completed_story[1], <<>>),
                               candidate_story.id, current_time,
                               E.config.mood_half_life_days)
        choices ==
            Flatten([k \in 1..Len(all) |->
                [i \in 1..Len(of(all[k])) |->
                    Mul(of(all[k])[i].delta, of(all[k])[i].decay)]])
    IN IF choices = <<>> THEN 0
       ELSE Normalized(Mean(choices))

\* _collaborative_sequence_score
_collaborative_sequence_score(E, user, candidate_story, current_time) ==
    IF ~Truthy(user.last_completed_story) THEN 0
    ELSE
    LET others == SelectSeq(UserOrder, LAMBDA u : u \in DOMAIN E.users /\ u # user.user_id)
        of(u) == DecayedDeltas(Get(E.users[u].preferred_transitions,
                                   user.last_completed_story[1], <<>>),
                               candidate_story.id, current_time,
                               E.config.mood_half_life_days)
        similar_user_next_choices ==
            Flatten([k \in 1..Len(others) |->
                [i \in 1..Len(of(others[k])) |->
                    Mul(of(others[k])[i].delta, of(others[k])[i].decay)]])
    IN IF similar_user_next_choices = <<>> THEN 0
       ELSE Normalized(Mean(similar_user_next_choices))

\* _collaborative_filtering_score
_collaborative_filtering_score(E, user, story, current_time) ==
    IF DOMAIN user.completed_stories = {} /\ DOMAIN user.favorited_stories = {} THEN 0
    ELSE
    LET half_life == E.config.event_half_life_days
        with_decay(u) == [sid \in DOMAIN Liked(u) |->
                            Decay(current_time - Liked(u)[sid], half_life)]
        user_liked == with_decay(user)
        similarity(other) ==
            SetSum(DOMAIN user_liked \cap DOMAIN with_decay(other),
                   [sid \in DOMAIN user_liked \cap DOMAIN with_decay(other) |->
                        Min(user_liked[sid], with_decay(other)[sid])])
            \div Cardinality(DOMAIN user_liked \cup DOMAIN with_decay(other))
        others == {u \in DOMAIN E.users :
                      u # user.user_id /\ story.id \in DOMAIN Liked(E.users[u])}
        similar_users_scores ==
            {Mul(similarity(E.users[u]), with_decay(E.users[u])[story.id]) : u \in others}
    IN IF similar_users_scores = {} THEN 0 ELSE Max(similar_users_scores)

\* _popularity_score
_popularity_score(E, user, story, current_time) ==
    LET half_life == E.config.event_half_life_days
        completion_score ==
            SetSum({u \in DOMAIN E.users : story.id \in DOMAIN E.users[u].completed_stories},
                   [u \in DOMAIN E.users |->
                        Decay(current_time - E.users[u].completed_stories[story.id],
                              half_life)])
        favorite_score ==
            SetSum({u \in DOMAIN E.users : story.id \in DOMAIN E.users[u].favorited_stories},
                   [u \in DOMAIN E.users |->
                        Mul(Decay(current_time - E.users[u].favorited_stories[story.id],
                                  half_life), 1500)])
        total_users == IF Cardinality(DOMAIN E.users) > 1 THEN Cardinality(DOMAIN E.users)
                       ELSE 1
    IN (completion_score + favorite_score) \div total_users

\* similarity * decay_factor for every story of `liked` that is in the catalog
SimilarityScores(E, story, liked, current_time) ==
    {Mul((_story_similarity(E, story.id, sid) * Unit) \div SimScale,
         Decay(current_time - liked[sid], E.config.event_half_life_days)) :
        sid \in DOMAIN liked \cap DOMAIN E.stories}

\* _content_based_score
_content_based_score(E, user, story, current_time) ==
    LET similarities_with_decay == SimilarityScores(E, story, Liked(user), current_time)
    IN IF similarities_with_decay = {} THEN 0 ELSE Max(similarities_with_decay)

(***************************************************************************)
(* Scoring engine: the score of one story                                  *)
(***************************************************************************)
\* signal 6, the favorites similarity: favorited stories outside the catalog
\* are skipped
FavoritesScore(E, user, story, current_time) ==
    LET favorite_scores == SimilarityScores(E, story, user.favorited_stories, current_time)
    IN IF favorite_scores = {} THEN 0 ELSE Max(favorite_scores)

\* signal 3, the user's own mood history with the story
PersonalImpact(E, user, story, current_time) ==
    IF story.id \in DOMAIN user.story_mood_impact
    THEN LET mood_change == user.story_mood_impact[story.id][1]
             timestamp == user.story_mood_impact[story.id][2]
         IN Mul(Mul(Normalized(Tenths(mood_change)), 2500),
                Decay(current_time - timestamp, E.config.mood_half_life_days))
    ELSE 0

\* signals 1 to 6, each multiplied by individual_weight
IndividualSignals(E, user, story, current_time, individual_weight) ==
    (IF user.current_mood # None
     THEN Mul(_sophisticated_mood_match(E, user, story, current_time), individual_weight)
     ELSE 0)
    + (IF Truthy(user.last_completed_story)
       THEN Mul(Mul(_sequence_based_score(E, user, story, current_time), 4 * Unit),
                individual_weight)
       ELSE 0)
    + Mul(PersonalImpact(E, user, story, current_time), individual_weight)
    + Mul(Mul(Get(_get_decayed_theme_scores(user, current_time,
                                            E.config.event_half_life_days),
                  story.theme, 0), 1500), individual_weight)
    + Mul(Mul(_content_based_score(E, user, story, current_time), 2 * Unit),
          individual_weight)
    + Mul(Mul(FavoritesScore(E, user, story, current_time), 2 * Unit), individual_weight)

\* score -= 5.0 for a story of an avoided theme: no weight is applied
AvoidedThemePenalty(user, story, current_time) ==
    IF story.theme \in get_avoided_themes(user, current_time) THEN 5 * Unit ELSE 0

\* signals 7 to 9 before collaborative_weight is applied
CollaborativeRaw(E, user, story, current_time) ==
    [filtering |-> _collaborative_filtering_score(E, user, story, current_time),
     sequence |-> _collaborative_sequence_score(E, user, story, current_time),
     popularity |-> _popularity_score(E, user, story, current_time)]

\* signals 7 to 9, each multiplied by collaborative_weight
CollaborativeSignals(E, user, story, current_time, collaborative_weight) ==
    LET raw == CollaborativeRaw(E, user, story, current_time)
    IN Mul(Mul(raw.filtering, 3 * Unit), collaborative_weight)
       + Mul(Mul(raw.sequence, 3500), collaborative_weight)
       + Mul(Mul(raw.popularity, 2 * Unit), collaborative_weight)

\* signals 10 and 11, the promotional boost and the novelty bonus
UniversalSignals(user, story, context) ==
    (IF context.promotional_tags # None
        /\ story.tags \cap context.promotional_tags[1] # {}
     THEN 1500 ELSE 0)
    + (IF story.id \notin DOMAIN user.viewed_stories THEN 500 ELSE 0)

\* _score_story_for_user
_score_story_for_user(E, user, story, context, current_time) ==
    LET w == Weights(user.recommendation_mix)
    IN IndividualSignals(E, user, story, current_time, w.individual)
       - AvoidedThemePenalty(user, story, current_time)
       + CollaborativeSignals(E, user, story, current_time, w.collaborative)
       + UniversalSignals(user, story, context)

(***************************************************************************)
(* Queries                                                                 *)
(***************************************************************************)
\* context = None: neither key is given
NoContext == [current_mood |-> None, promotional_tags |-> None]

\* the ids of the last 10 entries of recent_story_views
RecentStoryIds(user) ==
    LET v == user.recent_story_views
        n == Len(v)
    IN {v[i][2] : i \in (IF n > RecentViewsWindow THEN n - RecentViewsWindow + 1 ELSE 1)..n}

\* the stories get_recommendations scores
Candidates(E, user) == DOMAIN E.stories \ RecentStoryIds(user)

\* the pairs _content_based_score and the favorites signal look up for a candidate
SimilarityLookups(E, user) ==
    {<<c, liked>> : c \in Candidates(E, user),
                    liked \in (DOMAIN user.completed_stories \cup DOMAIN user.favorited_stories)
                                \cap DOMAIN E.stories}

\* the first statements of get_recommendations: the profile is created for an
\* unseen user and a context mood overwrites current_mood
Asked(E, user_id, context) ==
    LET E1 == [E EXCEPT !.users = IF user_id \in DOMAIN @ THEN @
                                  ELSE Put(@, user_id, UserProfile(user_id))]
    IN IF context.current_mood # None
       THEN [E1 EXCEPT !.users[user_id].current_mood = context.current_mood]
       ELSE E1

\* the similarities a call computes and memoizes
Memoized(E, user) ==
    {CacheKey(p[1], p[2]) : p \in {q \in SimilarityLookups(E, user) :
                                        StoresSimilarity(E, q[1], q[2])}}

\* the engine with the similarities of `keys` added to the cache
Memoize(E, keys) ==
    [E EXCEPT !.story_similarity_cache =
        [k \in DOMAIN @ \cup keys |->
            IF k \in DOMAIN @ THEN @[k]
            ELSE SimilarityFormula(E.stories[k[1]], E.stories[k[2]])]]

\* get_recommendations, its effect on the engine when it returns: the
\* profile is there, and every similarity the scoring computed is memoized
get_recommendations(E, user_id, context) ==
    LET E2 == Asked(E, user_id, context)
    IN Memoize(E2, Memoized(E2, E2.users[user_id]))

\* 0.5 ** (days_ago / self.event_half_life_days) raises ZeroDivisionError for
\* a half-life of zero. Scoring a story evaluates it for every theme
\* interaction of the user (signal 4), for every completed or favorited
\* story of the user (signals 5 to 7) and for every user who completed or
\* favorited the story (signal 9)
ScoringRaises(E, user_id, context) ==
    LET E2 == Asked(E, user_id, context)
        user == E2.users[user_id]
    IN /\ E2.config.event_half_life_days = 0
       /\ \E story_id \in Candidates(E2, user) :
             \/ \E theme \in DOMAIN user.theme_interactions :
                    user.theme_interactions[theme] # <<>>
             \/ DOMAIN Liked(user) # {}
             \/ \E u \in DOMAIN E2.users : story_id \in DOMAIN Liked(E2.users[u])

\* the engines a raising get_recommendations can leave: the error of signal 4
\* comes before any similarity is looked up; a later one comes after some of
\* the lookups, in the order of two dicts
RaisedOutcomes(E, user_id, context) ==
    LET E2 == Asked(E, user_id, context)
        user == E2.users[user_id]
    IN IF \E theme \in DOMAIN user.theme_interactions :
                user.theme_interactions[theme] # <<>>
       THEN {E2}
       ELSE {Memoize(E2, keys) : keys \in SUBSET Memoized(E2, user)}

\* the scored stories in ascending order of score
RankedAscending(story_scores) ==
    CHOOSE seq \in [1..Cardinality(DOMAIN story_scores) -> DOMAIN story_scores] :
        /\ \A i, j \in DOMAIN seq : i # j => seq[i] # seq[j]
        /\ \A i, j \in DOMAIN seq : i < j =>
              \/ story_scores[seq[i]] < story_scores[seq[j]]
              \/ /\ story_scores[seq[i]] = story_scores[seq[j]]
                 /\ IndexOf(StoryOrder, seq[i]) < IndexOf(StoryOrder, seq[j])

\* sorted(story_scores.items(), key=lambda x: x[1], reverse=True): the ids by
\* descending score, stories of equal score in the order of the catalog
Ranked(story_scores) ==
    CHOOSE seq \in [1..Cardinality(DOMAIN story_scores) -> DOMAIN story_scores] :
        /\ \A i, j \in DOMAIN seq : i # j => seq[i] # seq[j]
        /\ \A i, j \in DOMAIN seq : i < j =>
              \/ story_scores[seq[i]] > story_scores[seq[j]]
              \/ /\ story_scores[seq[i]] = story_scores[seq[j]]
                 /\ IndexOf(StoryOrder, seq[i]) < IndexOf(StoryOrder, seq[j])

\* sorted_stories[:n]: a negative n counts from the end
Slice(seq, n) ==
    IF n >= 0 THEN SubSeq(seq, 1, Min(n, Len(seq)))
    ELSE SubSeq(seq, 1, IF Len(seq) + n > 0 THEN Len(seq) + n ELSE 0)

\* story_scores of get_recommendations: the profile is created and the
\* context's mood stored before the first story is scored
StoryScores(E, user_id, context, current_time) ==
    LET E2 == get_recommendations(E, user_id, context)
        user == E2.users[user_id]
    IN [story_id \in Candidates(E2, user) |->
            _score_story_for_user(E2, user, E2.stories[story_id], context, current_time)]

\* get_recommendations, the list of (story_id, score) pairs it returns
Recommendations(E, user_id, context, n, current_time) ==
    LET story_scores == StoryScores(E, user_id, context, current_time)
        sorted_stories == Ranked(story_scores)
    IN Slice([i \in 1..Len(sorted_stories) |->
                <<sorted_stories[i], story_scores[sorted_stories[i]]>>], n)

\* get_sequence_insights reads self.stories[to_id].title for the best-next
\* entries of every origin story of the catalog (the top 3: all of them for
\* a catalog of at most 3 stories); it changes nothing and raises KeyError
\* on an entry whose story is not in the catalog
InsightsRaises(E) ==
    \E from_id \in DOMAIN E.global_transition_graph \cap DOMAIN E.stories :
        \E to_id \in DOMAIN E.stories[from_id].best_next_stories :
            to_id \notin DOMAIN E.stories

(***************************************************************************)
(* Persistence                                                             *)
(***************************************************************************)
Deref(E, ids) == [i \in 1..Len(ids) |-> E.heap[ids[i]]]

\* the per-user part of save_state: the transition indices are not saved
UserToDict(E, user) ==
    [user_id |-> user.user_id,
     viewed_stories |-> user.viewed_stories,
     completed_stories |-> user.completed_stories,
     favorited_stories |-> user.favorited_stories,
     theme_interactions |-> user.theme_interactions,
     mood_history |-> user.mood_history,
     current_mood |-> user.current_mood,
     story_mood_impact |-> user.story_mood_impact,
     recent_story_views |-> user.recent_story_views,
     recommendation_mix |-> user.recommendation_mix,
     mood_trend |-> user.mood_trend,
     mood_volatility |-> user.mood_volatility,
     story_sequences |-> Deref(E, user.story_sequences),
     last_completed_story |-> user.last_completed_story,
     last_completed_timestamp |-> user.last_completed_timestamp]

\* save_state: transitions are written out by value (StoryTransition.to_dict)
save_state(E) ==
    [stories |-> E.stories,
     users |-> [u \in DOMAIN E.users |-> UserToDict(E, E.users[u])],
     story_transitions |-> Deref(E, E.story_transitions),
     events |-> E.events,
     config |-> E.config]

\* `MoodScore.from_dict(x) if x else None`: a missing or zero score reads as None
MoodFromDict(data) == IF data # None /\ data[1] # 0 THEN data ELSE None

\* StoryTransition.from_dict: mood_delta is taken from the dict
TransitionFromDict(data) ==
    [data EXCEPT !.mood_before = MoodFromDict(@), !.mood_after = MoodFromDict(@)]

\* the loops of load_state that rebuild the two per-user indices
RebuildPreferred(transitions) ==
    LET from_ids == {transitions[i].from_story_id : i \in 1..Len(transitions)}
        of(f) == SelectSeq(transitions, LAMBDA t : t.from_story_id = f)
    IN [f \in from_ids |->
            [k \in 1..Len(of(f)) |->
                <<of(f)[k].to_story_id, of(f)[k].mood_delta, of(f)[k].timestamp>>]]

RebuildThemePreferences(catalog, transitions) ==
    LET counted == SelectSeq(transitions, LAMBDA t :
                        /\ t.from_story_id \in DOMAIN catalog
                        /\ t.to_story_id \in DOMAIN catalog
                        /\ t.mood_delta # None)
        ft(t) == catalog[t.from_story_id].theme
        tt(t) == catalog[t.to_story_id].theme
        from_themes == {ft(counted[i]) : i \in 1..Len(counted)}
        to_themes(f) == {tt(counted[i]) : i \in {j \in 1..Len(counted) : ft(counted[j]) = f}}
        of(f, t) == SelectSeq(counted, LAMBDA x : ft(x) = f /\ tt(x) = t)
    IN [f \in from_themes |->
            [t \in to_themes(f) |->
                [k \in 1..Len(of(f, t)) |-> <<of(f, t)[k].mood_delta[1], of(f, t)[k].timestamp>>]]]

\* the loop of load_state that rebuilds the global graph from the global list
RebuildGraph(hp, ids) ==
    LET from_ids == {hp[ids[i]].from_story_id : i \in 1..Len(ids)}
        to_ids(f) == {hp[ids[i]].to_story_id :
                        i \in {j \in 1..Len(ids) : hp[ids[j]].from_story_id = f}}
    IN [f \in from_ids |->
            [t \in to_ids(f) |->
                SelectSeq(ids, LAMBDA i : hp[i].from_story_id = f /\ hp[i].to_story_id = t)]]

\* the loop of load_state that rebuilds _theme_to_stories
RebuildThemeIndex(catalog) ==
    LET listed == SelectSeq(StoryOrder, LAMBDA sid : sid \in DOMAIN catalog)
        themes == {catalog[sid].theme : sid \in DOMAIN catalog}
    IN [th \in themes |-> SelectSeq(listed, LAMBDA sid : catalog[sid].theme = th)]

\* load_state: everything is replaced by the snapshot except the similarity
\* cache; every transition of the snapshot becomes a new object, the global
\* list's and each user's separately
load_state(E, state) ==
    LET global == [i \in 1..Len(state.story_transitions) |->
                        TransitionFromDict(state.story_transitions[i])]
        loaded == SelectSeq(UserOrder, LAMBDA u : u \in DOMAIN state.users)
        own(u) == [i \in 1..Len(state.users[u].story_sequences) |->
                        TransitionFromDict(state.users[u].story_sequences[i])]
        before(u) == Len(global)
                     + SeqSum([k \in 1..(IndexOf(loaded, u) - 1) |-> Len(own(loaded[k]))])
        hp == global \o Flatten([k \in 1..Len(loaded) |-> own(loaded[k])])
        user(u) ==
            LET data == state.users[u] IN
            [UserProfile(u) EXCEPT
                !.viewed_stories = data.viewed_stories,
                !.completed_stories = data.completed_stories,
                !.favorited_stories = data.favorited_stories,
                !.theme_interactions = data.theme_interactions,
                !.mood_history = data.mood_history,
                !.current_mood = MoodFromDict(data.current_mood),
                !.story_mood_impact = data.story_mood_impact,
                !.recent_story_views = data.recent_story_views,
                !.recommendation_mix = data.recommendation_mix,
                !.mood_trend = data.mood_trend,
                !.mood_volatility = data.mood_volatility,
                !.story_sequences = [i \in 1..Len(own(u)) |-> before(u) + i],
                !.preferred_transitions = RebuildPreferred(own(u)),
                !.theme_transition_preferences =
                    RebuildThemePreferences(state.stories, own(u)),
                !.last_completed_story = data.last_completed_story,
                !.last_completed_timestamp = data.last_completed_timestamp]
    IN [E EXCEPT
          !.config = state.config,
          !.stories = state.stories,
          !.theme_to_stories = RebuildThemeIndex(state.stories),
          !.heap = hp,
          !.story_transitions = [i \in 1..Len(global) |-> i],
          !.global_transition_graph = RebuildGraph(hp, [i \in 1..Len(global) |-> i]),
          !.users = [u \in DOMAIN state.users |-> user(u)],
          !.events = state.events]

\* the keys of a user record that load_state reads with user_data[...]
RequiredUserKeys ==
    {"viewed_stories", "completed_stories", "favorited_stories", "theme_interactions",
     "mood_history", "current_mood", "story_mood_impact", "recent_story_views"}

\* a snapshot in which the record of one user lacks one key
WithoutKey(state, user_id, key) ==
    [state EXCEPT !.users[user_id] = [k \in DOMAIN @ \ {key} |-> @[k]]]

\* load_state on any snapshot: the engine afterwards, and whether the call
\* raised. A user record lacking a required key raises KeyError inside the
\* loop over the users: by then config, catalog, theme index, global
\* transitions and graph are the snapshot's, self.users holds the records
\* before the malformed one, and self.events has not been assigned
LoadOutcome(E, state) ==
    LET loaded == SelectSeq(UserOrder, LAMBDA u : u \in DOMAIN state.users)
        malformed == {i \in 1..Len(loaded) :
                        ~(RequiredUserKeys \subseteq DOMAIN state.users[loaded[i]])}
        first == CHOOSE i \in malformed : \A j \in malformed : i <= j
        kept == {loaded[i] : i \in 1..(first - 1)}
    IN IF malformed = {} THEN [eng |-> load_state(E, state), raised |-> FALSE]
       ELSE [eng |-> load_state(E, [state EXCEPT
                                      !.users = [u \in kept |-> state.users[u]],
                                      !.events = E.events]),
             raised |-> TRUE]

(***************************************************************************)
(* The calls made on the engine                                            *)
(***************************************************************************)
NoneMade == [events |-> 0, stories |-> 0, queries |-> 0, saves |-> 0, loads |-> 0]

\* a call that returns nothing the model reads
Called(op, raised, args, kind) ==
    [op |-> op, raised |-> raised, args |-> args, returned |-> None,
     made |-> [call.made EXCEPT ![kind] = @ + 1]]

\* a call and the value it returned
Returning(op, args, kind, value) ==
    [Called(op, FALSE, args, kind) EXCEPT !.returned = Some(value)]

\* the request threads of the front end, none of them inside a call
Threads == {"t1", "t2"}
Idle ==
    [pc |-> "idle", user_id |-> "", context |-> NoContext, n |-> 0, current_time |-> 0,
     todo |-> <<>>, seen |-> 0, story_scores |-> EmptyMap, returned |-> None, alone |-> None]
NoneRunning == [t \in Threads |-> Idle]

Install(E) ==
    /\ stories' = E.stories
    /\ users' = E.users
    /\ events' = E.events
    /\ story_transitions' = E.story_transitions
    /\ global_transition_graph' = E.global_transition_graph
    /\ story_similarity_cache' = E.story_similarity_cache
    /\ theme_to_stories' = E.theme_to_stories
    /\ heap' = E.heap
    /\ config' = E.config

Init ==
    /\ stories = NewEngine.stories
    /\ users = NewEngine.users
    /\ events = NewEngine.events
    /\ story_transitions = NewEngine.story_transitions
    /\ global_transition_graph = NewEngine.global_transition_graph
    /\ story_similarity_cache = NewEngine.story_similarity_cache
    /\ theme_to_stories = NewEngine.theme_to_stories
    /\ heap = NewEngine.heap
    /\ config = NewEngine.config
    /\ now = 0
    /\ snapshot = None
    /\ reference = NewEngine
    /\ call = [op |-> "init", raised |-> FALSE, args |-> <<>>, returned |-> None,
               made |-> NoneMade]
    /\ running = NoneRunning

\* recommender.add_story(id, title, theme, tags)
AddStory(story_id, theme, tags, limit) ==
    /\ call.made.stories < limit
    /\ Install(add_story(Self, story_id, Title(story_id), theme, tags))
    /\ reference' = add_story(reference, story_id, Title(story_id), theme, tags)
    /\ call' = Called("add_story", FALSE, <<story_id, theme, tags>>, "stories")
    /\ UNCHANGED <<now, snapshot, running>>

\* the front end fills the catalog when it starts, one add_story after the
\* other, before it serves a request
LoadCatalog ==
    /\ call.made.events = 0
    /\ call.made.stories < Len(Catalog)
    /\ LET s == Catalog[call.made.stories + 1]
       IN AddStory(s[1], s[2], s[3], Len(Catalog))

\* a request handler stamps the event with datetime.now() and ingests it
AddEvent(e, gap, limit) ==
    /\ call.made.events < limit
    /\ now' = now + gap
    /\ LET ev == AnalyticsEvent(e.user_id, e.event_type, now', e.data)
           r == add_event(Self, ev, now')
       IN /\ Install(r.eng)
          /\ reference' = add_event(reference, ev, now').eng
          /\ call' = Called("add_event", r.raised, <<ev>>, "events")
    /\ UNCHANGED <<snapshot, running>>

\* recommender.get_recommendations(user_id, context, n); current_time is
\* datetime.now()
GetRecommendations(user_id, context, n, limit) ==
    /\ call.made.queries < limit
    /\ IF ScoringRaises(Self, user_id, context)
       THEN /\ \E E3 \in RaisedOutcomes(Self, user_id, context) : Install(E3)
            /\ reference' = Asked(reference, user_id, context)
            /\ call' = Called("get_recommendations", TRUE, <<user_id, context, n>>,
                              "queries")
       ELSE /\ Install(get_recommendations(Self, user_id, context))
            /\ reference' = get_recommendations(reference, user_id, context)
            /\ call' = Returning("get_recommendations", <<user_id, context, n>>,
                                 "queries",
                                 Recommendations(Self, user_id, context, n, now))
    /\ UNCHANGED <<now, snapshot, running>>

\* recommender.get_sequence_insights(user_id)
GetSequenceInsights(user_id, limit) ==
    /\ call.made.queries < limit
    /\ call' = Called("get_sequence_insights", InsightsRaises(Self), <<user_id>>, "queries")
    /\ UNCHANGED <<stories, users, events, story_transitions, global_transition_graph,
                   story_similarity_cache, theme_to_stories, heap, config, now, snapshot,
                   reference, running>>

\* snapshot = recommender.save_state(); the engine as it is now becomes what a
\* later load_state of this snapshot is compared with
SaveState(limit) ==
    /\ call.made.saves < limit
    /\ snapshot' = Some([state |-> save_state(Self), engine |-> Self])
    /\ call' = Called("save_state", FALSE, <<>>, "saves")
    /\ UNCHANGED <<stories, users, events, story_transitions, global_transition_graph,
                   story_similarity_cache, theme_to_stories, heap, config, now, reference,
                   running>>

\* recommender.load_state(snapshot)
LoadState(limit) ==
    /\ call.made.loads < limit
    /\ snapshot # None
    /\ Install(load_state(Self, snapshot[1].state))
    /\ reference' = snapshot[1].engine
    /\ call' = Called("load_state", FALSE, <<>>, "loads")
    /\ UNCHANGED <<now, snapshot, running>>

\* recommender.load_state(state) with a snapshot that was damaged after it
\* was written
LoadDamagedState(user_id, key, limit) ==
    /\ call.made.loads < limit
    /\ snapshot # None
    /\ user_id \in DOMAIN snapshot[1].state.users
    /\ LET state == WithoutKey(snapshot[1].state, user_id, key)
           r == LoadOutcome(Self, state)
       IN /\ Install(r.eng)
          /\ call' = Called("load_state", r.raised, <<state>>, "loads")
    /\ UNCHANGED <<now, snapshot, reference, running>>

(***************************************************************************)
(* get_recommendations on two request threads. A thread can be suspended   *)
(* between any two bytecodes; the model lets the other thread run after    *)
(* the first statements of the call and inside the loop over self.users    *)
(* that _popularity_score runs for every story the call scores.            *)
(***************************************************************************)
\* the ids of a set of stories in the order of self.stories
InCatalogOrder(E, ids) == SelectSeq(StoryOrder, LAMBDA story_id : story_id \in ids)

\* the call starts: current_time is read, the profile is created for an
\* unseen user and the context's mood is stored
Begin(t, user_id, context, n) ==
    /\ running[t].pc = "idle"
    /\ LET E2 == Asked(Self, user_id, context)
       IN /\ Install(E2)
          /\ running' = [running EXCEPT ![t] =
                 [Idle EXCEPT !.pc = "scoring", !.user_id = user_id, !.context = context,
                              !.n = n, !.current_time = now,
                              !.todo = InCatalogOrder(E2, Candidates(E2, E2.users[user_id])),
                              !.alone = Some(Recommendations(Self, user_id, context, n, now))]]
    /\ reference' = Asked(reference, user_id, context)
    /\ UNCHANGED <<now, snapshot, call>>

\* `for u in self.users.values()` begins for the next story: the iterator
\* notes the size of the dict
EnterLoop(t) ==
    /\ running[t].pc = "scoring"
    /\ running[t].todo # <<>>
    /\ running' = [running EXCEPT ![t].pc = "iterating",
                                  ![t].seen = Cardinality(DOMAIN users)]
    /\ UNCHANGED <<stories, users, events, story_transitions, global_transition_graph,
                   story_similarity_cache, theme_to_stories, heap, config, now, snapshot,
                   reference, call>>

\* the iterator is asked for the next profile: RuntimeError (dictionary
\* changed size during iteration) when a profile was inserted meanwhile,
\* otherwise the loop ends and the story has its score
LeaveLoop(t) ==
    /\ running[t].pc = "iterating"
    /\ LET r == running[t]
           story_id == Head(r.todo)
           user == users[r.user_id]
       IN running' = [running EXCEPT ![t] =
             IF Cardinality(DOMAIN users) # r.seen
             THEN [r EXCEPT !.pc = "raised"]
             ELSE [r EXCEPT !.pc = "scoring", !.todo = Tail(@),
                            !.story_scores =
                                Put(@, story_id,
                                    _score_story_for_user(Self, user, stories[story_id],
                                                          r.context, r.current_time))]]
    /\ UNCHANGED <<stories, users, events, story_transitions, global_transition_graph,
                   story_similarity_cache, theme_to_stories, heap, config, now, snapshot,
                   reference, call>>

\* every story is scored: the sorted list is returned
Return(t) ==
    /\ running[t].pc = "scoring"
    /\ running[t].todo = <<>>
    /\ LET r == running[t]
           sorted_stories == Ranked(r.story_scores)
       IN running' = [running EXCEPT ![t].pc = "returned", ![t].returned =
             Some(Slice([i \in 1..Len(sorted_stories) |->
                            <<sorted_stories[i], r.story_scores[sorted_stories[i]]>>], r.n))]
    /\ Install(get_recommendations(Self, running[t].user_id, running[t].context))
    /\ reference' = get_recommendations(reference, running[t].user_id, running[t].context)
    /\ UNCHANGED <<now, snapshot, call>>

(***************************************************************************)
(* Inputs                                                                  *)
(***************************************************************************)
Event(user_id, event_type, data) == [user_id |-> user_id, event_type |-> event_type, data |-> data]
View(u, s) == Event(u, "view", [NoData EXCEPT !.story_id = Some(s)])
Complete(u, s) == Event(u, "complete", [NoData EXCEPT !.story_id = Some(s)])
Favorite(u, s) == Event(u, "favorite", [NoData EXCEPT !.story_id = Some(s)])
MoodGeneral(u, m) == Event(u, "mood_general", [NoData EXCEPT !.mood_score = Some(m)])
MoodAfter(u, s, m) ==
    Event(u, "mood_after", [NoData EXCEPT !.story_id = Some(s), !.mood_score = Some(m)])
Search(u, theme) == Event(u, "search", [NoData EXCEPT !.theme = Some(theme)])
SliderPosition(u, p) == Event(u, "slider_position", [NoData EXCEPT !.position = Some(p)])
\* an event type add_event has no branch for
Share(u) == Event(u, "share", NoData)
\* events that lack a key their branch reads
MoodAfterNoScore(u, s) == Event(u, "mood_after", [NoData EXCEPT !.story_id = Some(s)])
ViewNoStory(u) == Event(u, "view", NoData)

\* the minutes between two requests
Gaps(e) ==
    IF e.event_type = "complete"
    THEN {transition_window_minutes, transition_window_minutes + 1}
    ELSE {15}

IngestEvents ==
    {Complete("u1", "S1"), Complete("u1", "S2"), MoodGeneral("u1", 60),
     MoodAfter("u1", "S2", 75), View("u1", "S1"), SliderPosition("u1", 150),
     Search("u1", "nature"), Share("u1"), MoodAfterNoScore("u1", "S2"),
     Complete("u2", "S1"), Complete("u2", "S2"), ViewNoStory("u2")}

(***************************************************************************)
(* Spec: the catalog is loaded, then events are ingested                   *)
(***************************************************************************)
Next ==
    \/ LoadCatalog
    \/ \E e \in IngestEvents : \E gap \in Gaps(e) : AddEvent(e, gap, MaxEvents)

Spec == Init /\ [][Next]_vars

(***************************************************************************)
(* Reading the run                                                         *)
(***************************************************************************)
\* this step is a call of add_event; Ingested' is the event it was given
IngestStep == call'.op = "add_event" /\ call'.made.events = call.made.events + 1
Ingested == call.args[1]

\* the events of the log that a user sent, and the complete events among them
EventsOf(u) == SelectSeq(events, LAMBDA e : e.user_id = u)
CompletionsOf(u) ==
    SelectSeq(events, LAMBDA e :
        e.user_id = u /\ e.event_type = "complete" /\ e.data.story_id # None)

IsPrefix(s, t) == Len(s) <= Len(t) /\ SubSeq(t, 1, Len(s)) = s
SequencesOf(u) == IF u \in DOMAIN users THEN users[u].story_sequences ELSE <<>>

(***************************************************************************)
(* C1: when a complete event for story B is ingested and the user's        *)
(* previous complete event was for story A at most                         *)
(* transition_window_minutes earlier, exactly one new StoryTransition      *)
(* A -> B is created and appended once to the user's story_sequences and   *)
(* once to the global story_transitions; when the gap is greater, the      *)
(* event adds no transition at all.                                        *)
(***************************************************************************)
C1_Created(u, A, B) ==
    /\ Len(heap') = Len(heap) + 1
    /\ IsPrefix(heap, heap')
    /\ users'[u].story_sequences = Append(SequencesOf(u), Len(heap'))
    /\ story_transitions' = Append(story_transitions, Len(heap'))
    /\ heap'[Len(heap')].from_story_id = A
    /\ heap'[Len(heap')].to_story_id = B
    /\ heap'[Len(heap')].user_id = u
    /\ \A v \in DOMAIN users \ {u} : users'[v].story_sequences = users[v].story_sequences

C1_NoneCreated ==
    /\ Len(heap') = Len(heap)
    /\ story_transitions' = story_transitions
    /\ \A v \in DOMAIN users' : users'[v].story_sequences = SequencesOf(v)

C1_Step ==
    (IngestStep /\ Ingested'.event_type = "complete" /\ Ingested'.data.story_id # None
        /\ CompletionsOf(Ingested'.user_id) # <<>>)
    => LET u == Ingested'.user_id
           previous == Last(CompletionsOf(u))
       IN IF Ingested'.timestamp - previous.timestamp <= transition_window_minutes
          THEN C1_Created(u, previous.data.story_id[1], Ingested'.data.story_id[1])
          ELSE C1_NoneCreated

C1_TransitionCreation == [][C1_Step]_vars

\* a user whose third completion, at exactly the window after the second,
\* created a transition, the second having come too late to create one
C1_Witness ==
    /\ call.op = "add_event"
    /\ Ingested.event_type = "complete"
    /\ Len(CompletionsOf(Ingested.user_id)) = 3
    /\ Len(users[Ingested.user_id].story_sequences) = 1
    /\ heap[Last(users[Ingested.user_id].story_sequences)].timestamp = Ingested.timestamp
    /\ heap[Last(users[Ingested.user_id].story_sequences)].time_between_minutes
          = transition_window_minutes

(***************************************************************************)
(* SpecScenario: one reader completes stories and reports moods            *)
(***************************************************************************)
ScenarioEvents ==
    {MoodGeneral("u1", 60), Complete("u1", "S1"), MoodAfter("u1", "S1", 50),
     Complete("u1", "S2"), MoodAfter("u1", "S2", 75)}

\* a completion comes 14 minutes after the request before it or a day
\* later, every other request one minute after the one before it
ScenarioGaps(e) ==
    IF e.event_type = "complete" THEN {14, transition_window_minutes + 1} ELSE {1}

NextScenario ==
    \/ LoadCatalog
    \/ \E e \in ScenarioEvents : \E gap \in ScenarioGaps(e) :
            AddEvent(e, gap, MaxScenarioEvents)

SpecScenario == Init /\ [][NextScenario]_vars

(***************************************************************************)
(* C2: for a user who completes A, then completes B within the window,     *)
(* then sends mood_after for B with score m, the A -> B transition's       *)
(* mood_delta afterwards equals m minus the mood-before taken at A (the    *)
(* latest mood-history value at or before A's completion); a further       *)
(* mood_after event for a different story leaves that transition's         *)
(* mood_after and mood_delta unchanged.                                    *)
(***************************************************************************)
\* the latest mood the user reported at or before time t
MoodReportedBy(u, t) ==
    LET h == users[u].mood_history
        at == {i \in 1..Len(h) : h[i][1] <= t}
    IN IF at = {} THEN None ELSE Some(h[Max(at)][2])

IsCompletion(e) == e.event_type = "complete" /\ e.data.story_id # None
IsMoodAfter(e) ==
    e.event_type = "mood_after" /\ e.data.story_id # None /\ e.data.mood_score # None

\* the user's last three events are complete A, complete B, mood_after B
C2_Backfilled ==
    \A u \in DOMAIN users :
        LET log == EventsOf(u)
            n == Len(log)
        IN (/\ n >= 3
            /\ IsCompletion(log[n - 2])
            /\ IsCompletion(log[n - 1])
            /\ IsMoodAfter(log[n])
            /\ log[n].data.story_id = log[n - 1].data.story_id
            /\ log[n - 1].timestamp - log[n - 2].timestamp <= transition_window_minutes
            /\ MoodReportedBy(u, log[n - 2].timestamp) # None)
           => /\ users[u].story_sequences # <<>>
              /\ LET t == heap[Last(users[u].story_sequences)]
                 IN /\ t.from_story_id = log[n - 2].data.story_id[1]
                    /\ t.to_story_id = log[n - 1].data.story_id[1]
                    /\ t.mood_delta =
                         Some(log[n].data.mood_score[1]
                              - MoodReportedBy(u, log[n - 2].timestamp)[1])

\* a mood_after for another story than the last transition's destination
C2_Unrelated ==
    (IngestStep /\ IsMoodAfter(Ingested') /\ SequencesOf(Ingested'.user_id) # <<>>
        /\ heap[Last(SequencesOf(Ingested'.user_id))].to_story_id
              # Ingested'.data.story_id[1])
    => LET obj == Last(SequencesOf(Ingested'.user_id))
       IN /\ heap'[obj].mood_after = heap[obj].mood_after
          /\ heap'[obj].mood_delta = heap[obj].mood_delta

C2_BackfillCorrectness == [][C2_Backfilled' /\ C2_Unrelated]_vars

(***************************************************************************)
(* C3: with S1 and S2 in the catalog, after mood_general 6.0, complete S1, *)
(* mood_after(S1) = 5.0, complete S2 fifteen minutes after S1 and          *)
(* mood_after(S2) = 7.5 by one user, exactly one transition S1 -> S2       *)
(* exists, its mood_delta is +2.5, and S1's best_next_stories has an entry *)
(* for S2 derived from that +2.5 delta.                                    *)
(***************************************************************************)
EndToEndScenario ==
    << AnalyticsEvent("u1", "mood_general", 1, MoodGeneral("u1", 60).data),
       AnalyticsEvent("u1", "complete", 15, Complete("u1", "S1").data),
       AnalyticsEvent("u1", "mood_after", 16, MoodAfter("u1", "S1", 50).data),
       AnalyticsEvent("u1", "complete", 30, Complete("u1", "S2").data),
       AnalyticsEvent("u1", "mood_after", 31, MoodAfter("u1", "S2", 75).data) >>

C3_EndToEnd ==
    (events = EndToEndScenario /\ DOMAIN stories = {"S1", "S2"})
    => /\ Len(story_transitions) = 1
       /\ Len(users["u1"].story_sequences) = 1
       /\ heap[story_transitions[1]].from_story_id = "S1"
       /\ heap[story_transitions[1]].to_story_id = "S2"
       /\ heap[story_transitions[1]].mood_delta = Some(25)
       /\ "S2" \in DOMAIN stories["S1"].best_next_stories
       /\ LET samples == stories["S1"].best_next_stories["S2"]
          IN [i \in 1..Len(samples) |-> samples[i].value] = <<25>>

(***************************************************************************)
(* C6: a malformed event has zero effect: when add_event is given an event *)
(* of an unknown event_type, or an event missing a payload key required    *)
(* for its type, the event log, the users map, every profile, the catalog  *)
(* and the transition lists are the same after the call as before it.      *)
(***************************************************************************)
KnownEventTypes ==
    {"view", "complete", "mood_after", "favorite", "mood_general", "search",
     "slider_position"}

Malformed(ev) == ev.event_type \notin KnownEventTypes \/ MissingKey(ev)

C6_Step ==
    (IngestStep /\ Malformed(Ingested'))
    => /\ events' = events
       /\ users' = users
       /\ stories' = stories
       /\ story_transitions' = story_transitions
       /\ heap' = heap

C6_MalformedEventHasNoEffect == [][C6_Step]_vars

(***************************************************************************)
(* C7: add_event never terminates with an error: for an event that lacks a *)
(* payload key required by its event_type, or whose event_type is unknown, *)
(* add_event returns normally instead of raising.                          *)
(***************************************************************************)
C7_AddEventNeverRaises ==
    (call.op = "add_event" /\ Malformed(call.args[1])) => ~call.raised

(***************************************************************************)
(* SpecRoundTrip: stories are added while events arrive                    *)
(***************************************************************************)
RoundTripEvents ==
    {MoodGeneral("u1", 60), Complete("u1", "S1"), Complete("u1", "S2"),
     MoodAfter("u1", "S2", 75)}

NextRoundTrip ==
    \/ \E i \in 1..Len(Catalog) :
            AddStory(Catalog[i][1], Catalog[i][2], Catalog[i][3], MaxStoryAdds)
    \/ \E e \in RoundTripEvents : AddEvent(e, 15, MaxRoundTripEvents)

SpecRoundTrip == Init /\ [][NextRoundTrip]_vars

(***************************************************************************)
(* C4: for every state reachable by add_story and add_event calls (events  *)
(* naming stories added only later and backfilled transitions included),   *)
(* load_state(save_state()) yields a global transition graph, per-user     *)
(* preferred_transitions and per-user theme_transition_preferences equal,  *)
(* entry for entry, to those of the state before the save.                 *)
(***************************************************************************)
\* the global transition graph with the transitions it holds, by value
GraphOf(E) ==
    [from_id \in DOMAIN E.global_transition_graph |->
        [to_id \in DOMAIN E.global_transition_graph[from_id] |->
            Deref(E, E.global_transition_graph[from_id][to_id])]]

PreferredOf(E) == [u \in DOMAIN E.users |-> E.users[u].preferred_transitions]

ThemePreferencesOf(E) == [u \in DOMAIN E.users |-> E.users[u].theme_transition_preferences]

Reloaded == load_state(Self, save_state(Self))

C4_RoundTrip ==
    /\ GraphOf(Reloaded) = GraphOf(Self)
    /\ PreferredOf(Reloaded) = PreferredOf(Self)
    /\ ThemePreferencesOf(Reloaded) = ThemePreferencesOf(Self)

(***************************************************************************)
(* C9: add_story is an idempotent upsert: calling add_story again with the *)
(* same id, title, theme and tags as the entry the catalog already holds   *)
(* leaves the catalog unchanged, derived statistics included, and leaves   *)
(* the theme-to-stories index without a duplicate of the id.               *)
(***************************************************************************)
Occurrences(seq, x) == Cardinality({i \in 1..Len(seq) : seq[i] = x})

\* the call just made repeated the id, title, theme and tags of an entry
RepeatedAdd ==
    /\ call'.op = "add_story"
    /\ call'.made.stories = call.made.stories + 1
    /\ call'.args[1] \in DOMAIN stories
    /\ stories[call'.args[1]].title = Title(call'.args[1])
    /\ stories[call'.args[1]].theme = call'.args[2]
    /\ stories[call'.args[1]].tags = call'.args[3]

C9_Step ==
    RepeatedAdd
    => /\ stories' = stories
       /\ \A theme \in DOMAIN theme_to_stories' :
            Occurrences(theme_to_stories'[theme], call'.args[1]) <= 1

C9_AddStoryIdempotent == [][C9_Step]_vars

(***************************************************************************)
(* SpecReload: the engine is saved and loaded while events arrive          *)
(***************************************************************************)
ReloadEvents ==
    {Complete("u1", "S1"), Complete("u1", "S2"), MoodGeneral("u1", 60),
     MoodAfter("u1", "S2", 75)}

NextReload ==
    \/ LoadCatalog
    \/ \E e \in ReloadEvents : AddEvent(e, 15, MaxReloadEvents)
    \/ SaveState(MaxSnapshots)
    \/ LoadState(MaxSnapshots)

SpecReload == Init /\ [][NextReload]_vars

(***************************************************************************)
(* C5: save/load is transparent to later ingestion: applying events to a   *)
(* state and applying the same events to load_state(save_state()) of that  *)
(* state give the same transitions (mood_before, mood_after, mood_delta)   *)
(* in the users' story_sequences, in the global story_transitions list and *)
(* in the global transition graph, and the same best-next keys; a backfill *)
(* after a load updates the global copy of the transition as well as the   *)
(* user's copy.                                                            *)
(***************************************************************************)
TransitionView(E) ==
    [story_sequences |-> [u \in DOMAIN E.users |-> Deref(E, E.users[u].story_sequences)],
     story_transitions |-> Deref(E, E.story_transitions),
     global_transition_graph |-> GraphOf(E),
     best_next |-> [s \in DOMAIN E.stories |->
                        <<DOMAIN E.stories[s].best_next_stories,
                          DOMAIN E.stories[s].best_next_themes>>]]

C5_LoadTransparent == TransitionView(Self) = TransitionView(reference)

(***************************************************************************)
(* SpecCatalog: the catalog changes between queries, saves and loads       *)
(***************************************************************************)
CatalogEvents == {Favorite("u1", "S1")}

QueryUsers == {"u1", "u2"}

QueryContexts == {NoContext, [NoContext EXCEPT !.current_mood = Some(75)]}

NextCatalog ==
    \/ \E i \in 1..Len(Catalog) :
            AddStory(Catalog[i][1], Catalog[i][2], Catalog[i][3], MaxStoryAdds)
    \/ \E e \in CatalogEvents : AddEvent(e, 15, MaxCatalogEvents)
    \/ \E u \in QueryUsers : \E context \in QueryContexts :
            GetRecommendations(u, context, n_recommendations, MaxQueries)
    \/ \E u \in QueryUsers : GetSequenceInsights(u, MaxQueries)
    \/ SaveState(MaxSnapshots)
    \/ LoadState(MaxSnapshots)

SpecCatalog == Init /\ [][NextCatalog]_vars

(***************************************************************************)
(* C8: only add_story, add_event and load_state mutate the engine: a call  *)
(* to get_recommendations (known or unknown user, with or without a        *)
(* context carrying current_mood), get_sequence_insights or save_state     *)
(* leaves the users map, every profile's current_mood, the catalog, the    *)
(* transition lists and the event log unchanged.                           *)
(***************************************************************************)
ReadOnlyOperations == {"get_recommendations", "get_sequence_insights", "save_state"}

C8_Step ==
    (call'.made # call.made /\ call'.op \in ReadOnlyOperations)
    => /\ users' = users
       /\ stories' = stories
       /\ story_transitions' = story_transitions
       /\ heap' = heap
       /\ events' = events

C8_QueriesDoNotMutate == [][C8_Step]_vars

(***************************************************************************)
(* C10: similarity cache coherence: in every state reachable by add_story, *)
(* load_state and similarity lookups, every entry of the similarity cache  *)
(* equals the value the similarity formula gives for that pair on the      *)
(* current catalog; every operation that changes the catalog, load_state   *)
(* included, empties the cache.                                            *)
(***************************************************************************)
CacheCoherent ==
    \A k \in DOMAIN story_similarity_cache :
        /\ k[1] \in DOMAIN stories
        /\ k[2] \in DOMAIN stories
        /\ story_similarity_cache[k] = SimilarityFormula(stories[k[1]], stories[k[2]])

C10_Step ==
    /\ CacheCoherent'
    /\ stories' # stories => story_similarity_cache' = EmptyMap

C10_CacheCoherence == [][C10_Step]_vars

(***************************************************************************)
(* SpecViews: one reader opens stories again and again, then asks for      *)
(* recommendations                                                         *)
(***************************************************************************)
ViewEvents == {View("u1", "S1"), View("u1", "S2")}

NextViews ==
    \/ LoadCatalog
    \/ \E e \in ViewEvents : AddEvent(e, 15, MaxViews)
    \/ GetRecommendations("u1", NoContext, n_recommendations, MaxQueries)

SpecViews == Init /\ [][NextViews]_vars

\* the ids of a returned list of (story_id, score) pairs
ReturnedIds == {call.returned[1][i][1] : i \in 1..Len(call.returned[1])}

\* the `count` distinct stories whose latest view is the most recent
MostRecentlyViewed(user, count) ==
    {s \in DOMAIN user.viewed_stories :
        Cardinality({t \in DOMAIN user.viewed_stories :
                        user.viewed_stories[t] > user.viewed_stories[s]}) < count}

(***************************************************************************)
(* C11: get_recommendations never returns any of the user's 10 most        *)
(* recently viewed stories (the 10 distinct stories with the latest view   *)
(* events, also when some of them were viewed several times), never a      *)
(* story id that is not in the catalog, and never the same id twice.       *)
(***************************************************************************)
C11_RecentlyViewedExcluded ==
    call.op = "get_recommendations" =>
        /\ ReturnedIds \cap MostRecentlyViewed(users[call.args[1]], RecentViewsWindow) = {}
        /\ ReturnedIds \subseteq DOMAIN stories
        /\ \A i, j \in 1..Len(call.returned[1]) :
              i # j => call.returned[1][i][1] # call.returned[1][j][1]

(***************************************************************************)
(* SpecRanking: readers act on a catalog that is being filled, and lists   *)
(* of several lengths are asked for                                        *)
(***************************************************************************)
RankingEvents ==
    {View("u1", "S1"), Complete("u1", "S2"), Favorite("u1", "S1"),
     MoodGeneral("u1", 60), MoodAfter("u1", "S2", 75)}

RankingSizes == {0, 1, n_recommendations}

NextRanking ==
    \/ LoadCatalog
    \/ \E e \in RankingEvents : AddEvent(e, 15, MaxRankingEvents)
    \/ \E u \in QueryUsers : \E n \in RankingSizes :
            GetRecommendations(u, NoContext, n, MaxQueries)

SpecRanking == Init /\ [][NextRanking]_vars

\* the scores of the stories the last call left as candidates
ScoresOfCall == StoryScores(Self, call.args[1], call.args[2], now)

(***************************************************************************)
(* C12: for n >= 0, get_recommendations returns a list of exactly          *)
(* min(n, number of non-excluded catalog stories) pairs, in non-increasing *)
(* order of score, and every omitted non-excluded story has a score no     *)
(* greater than the last returned one; for an unknown user or an empty     *)
(* catalog it returns normally (an empty list when the catalog is empty).  *)
(***************************************************************************)
C12_TopN ==
    (call.op = "get_recommendations" /\ call.args[3] >= 0) =>
        LET list == call.returned[1]
        IN /\ ~call.raised
           /\ Len(list) = Min(call.args[3], Cardinality(DOMAIN ScoresOfCall))
           /\ \A i \in 1..Len(list) :
                 /\ list[i][1] \in DOMAIN ScoresOfCall
                 /\ list[i][2] = ScoresOfCall[list[i][1]]
           /\ \A i, j \in 1..Len(list) : i < j => list[i][2] >= list[j][2]
           /\ \A s \in DOMAIN ScoresOfCall \ ReturnedIds :
                 list # <<>> => ScoresOfCall[s] <= Last(list)[2]
           /\ stories = EmptyMap => list = <<>>

\* a list of one is returned for two candidates of different scores
C12_Witness ==
    /\ call.op = "get_recommendations"
    /\ call.args[3] = 1
    /\ Len(call.returned[1]) = 1
    /\ \E s \in DOMAIN ScoresOfCall \ ReturnedIds :
          ScoresOfCall[s] < call.returned[1][1][2]

\* an unseen user asks while the catalog is still empty
C12_WitnessEmpty ==
    /\ call.op = "get_recommendations"
    /\ call.made.events = 0
    /\ stories = EmptyMap
    /\ call.returned = Some(<<>>)

(***************************************************************************)
(* SpecScoring: an earlier reader leaves completions and transitions, then *)
(* a second reader acts, moves the slider and asks for recommendations or  *)
(* for the sequence insights                                               *)
(***************************************************************************)
\* S0 is a story id the catalog does not hold
ReaderScript ==
    <<MoodGeneral("u2", 60), Complete("u2", "S0"), Complete("u2", "S1"),
      Complete("u2", "S2")>>

ScoringEvents ==
    {Complete("u1", "S0"), Complete("u1", "S1"), MoodGeneral("u1", 75),
     MoodAfter("u1", "S1", 50), SliderPosition("u1", 0), SliderPosition("u1", 100)}

ScoringContexts == {NoContext, [NoContext EXCEPT !.promotional_tags = Some({"calm"})]}

EarlierReader ==
    /\ call.made.stories = Len(Catalog)
    /\ call.made.events < Len(ReaderScript)
    /\ AddEvent(ReaderScript[call.made.events + 1], 15, Len(ReaderScript))

NextScoring ==
    \/ LoadCatalog
    \/ EarlierReader
    \/ /\ call.made.events >= Len(ReaderScript)
       /\ \E e \in ScoringEvents : AddEvent(e, 15, Len(ReaderScript) + MaxScoringEvents)
    \/ /\ call.made.events >= Len(ReaderScript)
       /\ \E context \in ScoringContexts :
            GetRecommendations("u1", context, n_recommendations, MaxQueries)
    \/ /\ call.made.events >= Len(ReaderScript)
       /\ GetSequenceInsights("u1", MaxQueries)

SpecScoring == Init /\ [][NextScoring]_vars

\* the engine with every profile but the user's own removed: the catalog and
\* its per-story statistics stay as they are
Alone(E, user_id) == [E EXCEPT !.users = [u \in {user_id} |-> E.users[user_id]]]

\* the last call was get_recommendations for a user whose mix is `mix`
ScoredAtMix(mix) ==
    /\ call.op = "get_recommendations"
    /\ users[call.args[1]].recommendation_mix = mix

(***************************************************************************)
(* C13, as stated: with recommendation_mix = 0.0 the score of a story for  *)
(* that user is the same whatever other users have completed, favorited or *)
(* transitioned, provided the per-story derived statistics are equal.      *)
(***************************************************************************)
C13_ScoreIgnoresOtherUsers ==
    ScoredAtMix(0) =>
        ScoresOfCall = StoryScores(Alone(Self, call.args[1]), call.args[1], call.args[2], now)

(***************************************************************************)
(* C13, amended: with recommendation_mix = 0.0 the collaborative-filtering,*)
(* collaborative-sequence and popularity signals contribute exactly zero   *)
(* to every story's score: the score is the sum of the individually        *)
(* weighted signals at weight 1, the avoided-theme penalty and the         *)
(* promotional and novelty bonuses.                                        *)
(***************************************************************************)
C13_CollaborativeSilent ==
    ScoredAtMix(0) =>
        \A i \in 1..Len(call.returned[1]) :
            LET user == users[call.args[1]]
                story == stories[call.returned[1][i][1]]
            IN call.returned[1][i][2] =
                    IndividualSignals(Self, user, story, now, Unit)
                    - AvoidedThemePenalty(user, story, now)
                    + UniversalSignals(user, story, call.args[2])

\* a story is scored at mix 0 whose three collaborative signals are all positive
C13_Witness ==
    /\ ScoredAtMix(0)
    /\ \E i \in 1..Len(call.returned[1]) :
          LET raw == CollaborativeRaw(Self, users[call.args[1]],
                                      stories[call.returned[1][i][1]], now)
          IN raw.filtering > 0 /\ raw.sequence > 0 /\ raw.popularity > 0

(***************************************************************************)
(* C14: with recommendation_mix = 1.0 every individual-only contribution   *)
(* to a story's score is zero - mood match, personal story mood impact,    *)
(* theme preference (its decayed theme score and its avoided-theme penalty *)
(* alike) and content/favorites similarity - so the score equals the       *)
(* collaborative contributions plus the promotional and novelty bonuses    *)
(* only.                                                                   *)
(***************************************************************************)
C14_IndividualSilent ==
    ScoredAtMix(100) =>
        \A i \in 1..Len(call.returned[1]) :
            LET user == users[call.args[1]]
                story == stories[call.returned[1][i][1]]
            IN call.returned[1][i][2] =
                    CollaborativeSignals(Self, user, story, now, Unit)
                    + UniversalSignals(user, story, call.args[2])

(***************************************************************************)
(* SpecSimilarity: stories of every combination of theme and tags are      *)
(* added, a reader favorites one and asks for recommendations, which looks *)
(* up the similarity of the other story to it                              *)
(***************************************************************************)
Themes == {"mystery", "nature"}

TagSets == {{}, {"calm"}, {"dark"}}

SimilarityEvents == {Favorite("u1", "S1"), Favorite("u1", "S2")}

NextSimilarity ==
    \/ \E i \in 1..Len(StoryOrder) : \E theme \in Themes : \E tags \in TagSets :
            AddStory(StoryOrder[i], theme, tags, MaxStoryAdds)
    \/ \E e \in SimilarityEvents : AddEvent(e, 15, MaxCatalogEvents)
    \/ GetRecommendations("u1", NoContext, n_recommendations, MaxQueries)

SpecSimilarity == Init /\ [][NextSimilarity]_vars

\* the similarities looked up so far: the pairs of the cache with their stories
LookedUp ==
    {[a |-> stories[k[1]], b |-> stories[k[2]], similarity |-> story_similarity_cache[k]] :
        k \in DOMAIN story_similarity_cache}

\* the result does not depend on the order of the two ids
Symmetric ==
    \A id1, id2 \in DOMAIN stories :
        _story_similarity(Self, id1, id2) = _story_similarity(Self, id2, id1)

(***************************************************************************)
(* C15, as stated: for any two distinct catalog stories, identical theme   *)
(* and identical tag sets (the empty tag set included) give similarity     *)
(* 1.0, identical theme and disjoint tag sets give exactly 0.5, distinct   *)
(* themes and disjoint tag sets give 0.0; the result is the same for       *)
(* (a, b) and (b, a).                                                      *)
(***************************************************************************)
C15_SimilarityBoundary ==
    /\ \A l \in LookedUp :
          /\ (l.a.theme = l.b.theme /\ l.a.tags = l.b.tags) => l.similarity = SimScale
          /\ (l.a.theme = l.b.theme /\ l.a.tags \cap l.b.tags = {})
                => l.similarity = SimScale \div 2
          /\ (l.a.theme # l.b.theme /\ l.a.tags \cap l.b.tags = {}) => l.similarity = 0
    /\ Symmetric

(***************************************************************************)
(* C15, amended: for any two distinct catalog stories, identical theme and *)
(* identical non-empty tag sets give similarity 1.0, identical theme and   *)
(* disjoint tag sets (two empty tag sets included) give exactly 0.5,       *)
(* distinct themes and disjoint tag sets give 0.0; the result is the same  *)
(* for (a, b) and (b, a).                                                  *)
(***************************************************************************)
C15_SimilarityBoundaryNonEmpty ==
    /\ \A l \in LookedUp :
          /\ (l.a.theme = l.b.theme /\ l.a.tags = l.b.tags /\ l.a.tags # {})
                => l.similarity = SimScale
          /\ (l.a.theme = l.b.theme /\ l.a.tags \cap l.b.tags = {})
                => l.similarity = SimScale \div 2
          /\ (l.a.theme # l.b.theme /\ l.a.tags \cap l.b.tags = {}) => l.similarity = 0
    /\ Symmetric

\* the similarity of two stories of one theme and one non-empty tag set was
\* looked up
C15_Witness ==
    \E l \in LookedUp :
        /\ l.a.theme = l.b.theme
        /\ l.a.tags = l.b.tags
        /\ l.a.tags # {}
        /\ l.similarity = SimScale

(***************************************************************************)
(* C16: dangling story references are never fatal: in every state          *)
(* reachable by add_story/add_event - including states where a transition, *)
(* best-next entry, mood impact or completion refers to a story id that is *)
(* not in the catalog - get_recommendations and get_sequence_insights      *)
(* return normally, skipping the dangling entry.                           *)
(***************************************************************************)
C16_DanglingNeverFatal ==
    call.op \in {"get_recommendations", "get_sequence_insights"} => ~call.raised

(***************************************************************************)
(* SpecSlider: readers move the slider to positions inside and outside     *)
(* [0, 1] between other events, recommendations are asked for an unseen    *)
(* user, and the state is saved and loaded                                 *)
(***************************************************************************)
SliderEvents ==
    {SliderPosition("u1", -20), SliderPosition("u1", 30), SliderPosition("u1", 150),
     View("u1", "S1")}

NextSlider ==
    \/ LoadCatalog
    \/ \E e \in SliderEvents : AddEvent(e, 15, MaxSliderEvents)
    \/ GetRecommendations("u2", NoContext, n_recommendations, MaxQueries)
    \/ SaveState(MaxSnapshots)
    \/ LoadState(MaxSnapshots)

SpecSlider == Init /\ [][NextSlider]_vars

\* the profile an event finds: the user's, or a fresh one
ProfileBefore(u) == IF u \in DOMAIN users THEN users[u] ELSE UserProfile(u)

(***************************************************************************)
(* C17: in every reachable state every user's recommendation_mix lies in   *)
(* [0,1]: it is 0.5 for a new profile, a slider_position event with any    *)
(* numeric position sets it to that position clamped to [0,1] and changes  *)
(* nothing else in the profile, and no other event type changes it.        *)
(***************************************************************************)
C17_Step ==
    /\ \A u \in DOMAIN users' :
          /\ users'[u].recommendation_mix >= 0
          /\ users'[u].recommendation_mix <= 100
    /\ (call'.op = "get_recommendations" /\ call'.args[1] \notin DOMAIN users)
          => users'[call'.args[1]].recommendation_mix = 50
    /\ IngestStep =>
          LET ev == call'.args[1]
              position == ev.data.position[1]
          IN IF ev.event_type = "slider_position"
             THEN users'[ev.user_id] =
                    [ProfileBefore(ev.user_id) EXCEPT !.recommendation_mix =
                        IF position < 0 THEN 0 ELSE IF position > 100 THEN 100
                        ELSE position]
             ELSE users'[ev.user_id].recommendation_mix =
                    ProfileBefore(ev.user_id).recommendation_mix

C17_MixClamped == [][C17_Step]_vars

\* a position above 1 was sent by a reader who had viewed a story, and the
\* mix is 1
C17_Witness ==
    /\ call.op = "add_event"
    /\ Ingested.event_type = "slider_position"
    /\ Ingested.data.position[1] > 100
    /\ users[Ingested.user_id].recommendation_mix = 100
    /\ users[Ingested.user_id].viewed_stories # EmptyMap

(***************************************************************************)
(* SpecMoods: a reader reports moods, the lowest value of the mood form    *)
(* field included, completes stories, and the state is saved and loaded,   *)
(* from the snapshot as written or from a damaged one                      *)
(***************************************************************************)
MoodEvents ==
    {MoodGeneral("u1", 0), MoodGeneral("u1", 60), Complete("u1", "S1"),
     Complete("u1", "S2"), MoodAfter("u1", "S2", 75)}

\* the first and the last key load_state reads from a user record
DamagedKeys == {"viewed_stories", "recent_story_views"}

NextMoods ==
    \/ LoadCatalog
    \/ \E e \in MoodEvents : AddEvent(e, 15, MaxMoodEvents)
    \/ SaveState(MaxSnapshots)
    \/ LoadState(MaxSnapshots)
    \/ \E key \in DamagedKeys : LoadDamagedState("u1", key, MaxSnapshots)

SpecMoods == Init /\ [][NextMoods]_vars

\* the transition objects of the global list and of every user's story_sequences
TransitionsHeld ==
    {heap[story_transitions[i]] : i \in 1..Len(story_transitions)}
    \cup UNION {{heap[users[u].story_sequences[i]] :
                    i \in 1..Len(users[u].story_sequences)} : u \in DOMAIN users}

(***************************************************************************)
(* C18: in every reachable state, for every transition in any user's       *)
(* story_sequences and in the global list, mood_delta is non-null only if  *)
(* both mood_before and mood_after are non-null, and when non-null it      *)
(* equals mood_after minus mood_before; this holds after creation, after   *)
(* backfill and after a save/load round-trip.                              *)
(***************************************************************************)
C18_DeltaConsistent ==
    \A t \in TransitionsHeld :
        t.mood_delta # None =>
            /\ t.mood_before # None
            /\ t.mood_after # None
            /\ t.mood_delta[1] = t.mood_after[1] - t.mood_before[1]

(***************************************************************************)
(* C19: load_state is atomic: after a call to load_state the engine holds  *)
(* either the complete state described by the snapshot or, when the        *)
(* snapshot is malformed (for example a user record lacking a required     *)
(* key), exactly the state it held before the call; no state is observable *)
(* in which config, catalog and transitions come from the snapshot while   *)
(* users or the event log do not.                                          *)
(***************************************************************************)
C19_Step ==
    (call'.op = "load_state" /\ call'.made.loads = call.made.loads + 1) =>
        IF call'.raised
        THEN UNCHANGED <<stories, users, events, story_transitions,
                         global_transition_graph, theme_to_stories, heap, config>>
        ELSE /\ config' = snapshot[1].state.config
             /\ stories' = snapshot[1].state.stories
             /\ DOMAIN users' = DOMAIN snapshot[1].state.users
             /\ events' = snapshot[1].state.events
             /\ Len(story_transitions') = Len(snapshot[1].state.story_transitions)

C19_LoadAtomic == [][C19_Step]_vars

(***************************************************************************)
(* SpecConfig: the engine is constructed with a configuration of the       *)
(* caller's choice, then used. The mood half-life stays positive: add_event*)
(* divides by it when it recomputes a story's statistics.                  *)
(***************************************************************************)
Configurations ==
    {AppConfig,
     [AppConfig EXCEPT !.event_half_life_days = 0],
     [AppConfig EXCEPT !.transition_window_minutes = 0],
     [AppConfig EXCEPT !.transition_window_minutes = -transition_window_minutes]}

ConfigEvents ==
    {View("u1", "S1"), Complete("u1", "S1"), Complete("u1", "S2"), Favorite("u1", "S2")}

\* recommender = StoryRecommender(event_half_life_days, mood_half_life_days,
\* transition_window_minutes)
InitConfig ==
    /\ config \in Configurations
    /\ stories = StoryRecommender(config).stories
    /\ users = StoryRecommender(config).users
    /\ events = StoryRecommender(config).events
    /\ story_transitions = StoryRecommender(config).story_transitions
    /\ global_transition_graph = StoryRecommender(config).global_transition_graph
    /\ story_similarity_cache = StoryRecommender(config).story_similarity_cache
    /\ theme_to_stories = StoryRecommender(config).theme_to_stories
    /\ heap = StoryRecommender(config).heap
    /\ now = 0
    /\ snapshot = None
    /\ reference = StoryRecommender(config)
    /\ call = [op |-> "init", raised |-> FALSE, args |-> <<config>>, returned |-> None,
               made |-> NoneMade]
    /\ running = NoneRunning

NextConfig ==
    \/ LoadCatalog
    \/ \E e \in ConfigEvents : AddEvent(e, 15, MaxConfigEvents)
    \/ GetRecommendations("u1", NoContext, n_recommendations, MaxQueries)

SpecConfig == InitConfig /\ [][NextConfig]_vars

(***************************************************************************)
(* C20: configuration is validated when it is set: constructing the        *)
(* engine, or loading a snapshot, with event_half_life_days,               *)
(* mood_half_life_days or transition_window_minutes equal to zero or       *)
(* negative is rejected at that point, so no state is reachable in which   *)
(* add_event or get_recommendations runs with a non-positive half-life.    *)
(***************************************************************************)
C20_ConfigurationValidated ==
    call.op \in {"add_event", "get_recommendations"} =>
        /\ config.event_half_life_days > 0
        /\ config.mood_half_life_days > 0
        /\ config.transition_window_minutes > 0

(***************************************************************************)
(* SpecConcurrent: events are ingested, then two request threads ask for   *)
(* recommendations at the same time; nothing else runs while they do.      *)
(***************************************************************************)
ConcurrentEvents ==
    {Complete("u1", "S1"), Favorite("u1", "S2"), Complete("u2", "S1"), View("u2", "S2")}

\* the readers who ask: u1 has a profile when it has sent an event, u3 never has
Readers == {"u1", "u3"}

NoneBegun == \A t \in Threads : running[t].pc = "idle"

NextConcurrent ==
    \/ NoneBegun /\ LoadCatalog
    \/ NoneBegun /\ \E e \in ConcurrentEvents : AddEvent(e, 15, MaxConcurrentEvents)
    \/ \E t \in Threads, u \in Readers : Begin(t, u, NoContext, n_recommendations)
    \/ \E t \in Threads : EnterLoop(t)
    \/ \E t \in Threads : LeaveLoop(t)
    \/ \E t \in Threads : Return(t)

SpecConcurrent == Init /\ [][NextConcurrent]_vars

(***************************************************************************)
(* C21: concurrent reads are safe: when two get_recommendations calls (for *)
(* any users, including user ids with no profile yet) run interleaved on   *)
(* the same engine with no add_story/add_event/load_state in progress,     *)
(* neither fails and each returns the result it would return when run      *)
(* alone; no interleaving has one call changing the users map while the    *)
(* other iterates over it.                                                 *)
(***************************************************************************)
C21_ConcurrentReadsSafe ==
    \A t \in Threads :
        /\ running[t].pc # "raised"
        /\ running[t].pc = "returned" => running[t].returned = running[t].alone
        /\ running[t].pc = "iterating" => Cardinality(DOMAIN users) = running[t].seen

(***************************************************************************)
(* SpecReplay: two runs ingest the same events, with the same timestamps,  *)
(* the second run (reference) ReplayDelay minutes later on the wall clock. *)
(***************************************************************************)
ReplayDelay == mood_half_life_days * MinutesPerDay

ReplayEvents ==
    {MoodGeneral("u1", 60), MoodAfter("u1", "S1", 65), Complete("u1", "S1"),
     Complete("u1", "S2")}

\* one event of the log, given to both runs
ReplayEvent(e, gap, limit) ==
    /\ call.made.events < limit
    /\ now' = now + gap
    /\ LET ev == AnalyticsEvent(e.user_id, e.event_type, now', e.data)
           r == add_event(Self, ev, now')
       IN /\ Install(r.eng)
          /\ reference' = add_event(reference, ev, now' + ReplayDelay).eng
          /\ call' = Called("add_event", r.raised, <<ev>>, "events")
    /\ UNCHANGED <<snapshot, running>>

NextReplay ==
    \/ LoadCatalog
    \/ \E e \in ReplayEvents : ReplayEvent(e, 15, MaxReplayEvents)

SpecReplay == Init /\ [][NextReplay]_vars

\* the numbers a story's stored statistics stand for
StoredStatistics(E, story_id) ==
    LET story == E.stories[story_id]
        half_life == E.config.mood_half_life_days
    IN [best_next_stories |->
            [to \in DOMAIN story.best_next_stories |->
                MeanOf(story.best_next_stories[to], half_life)],
        best_next_themes |->
            [th \in DOMAIN story.best_next_themes |->
                MeanOf(story.best_next_themes[th], half_life)],
        avg_mood_change |->
            IF story.avg_mood_change = None THEN None
            ELSE Some(WeightedMeanOf(story.avg_mood_change[1], half_life)),
        mood_effectiveness |->
            [r \in DOMAIN story.mood_effectiveness |->
                MeanOf(story.mood_effectiveness[r], half_life)]]

(***************************************************************************)
(* C22: scoring is deterministic given a fixed clock: for two runs that    *)
(* ingest the same add_story/add_event sequence (same event timestamps) at *)
(* different wall-clock instants, get_recommendations with the same        *)
(* context current_time returns the same scores; no stored statistic       *)
(* (best_next_stories, best_next_themes, avg_mood_change,                  *)
(* mood_effectiveness) depends on the wall-clock time at which an event    *)
(* was ingested.                                                           *)
(***************************************************************************)
C22_FixedClockDeterminism ==
    LET current_time == now + ReplayDelay
    IN /\ \A u \in DOMAIN users :
            Recommendations(Self, u, NoContext, n_recommendations, current_time)
                = Recommendations(reference, u, NoContext, n_recommendations, current_time)
       /\ \A s \in DOMAIN stories : StoredStatistics(Self, s) = StoredStatistics(reference, s)

(***************************************************************************)
(* SpecDecay: one observation is recorded, then time passes, one event     *)
(* half-life after the other. Decay above gives 0.5 ** (days_ago /         *)
(* half_life) to the thousandth, which is what a score needs; HalfToThe    *)
(* gives the double itself where it is a power of two.                     *)
(***************************************************************************)
\* 0.5 ** 1074 is the smallest positive double
SmallestExponent == 1074

HalfLifeMinutes == event_half_life_days * MinutesPerDay

\* the double 0.5 ** k for a whole k >= 0: Some(k) stands for 2 ** -k, which
\* is exact down to the smallest subnormal; below it the result is 0.0, None
HalfToThe(k) == IF k <= SmallestExponent THEN Some(k) ELSE None

\* decay_factor of an observation made `age` minutes ago, a whole number of
\* half-lives: days_ago / half_life_days is then a whole number, exactly
DecayFactor(age) == HalfToThe(age \div HalfLifeMinutes)

\* a > b for two such doubles
Greater(a, b) == a # None /\ (b = None \/ a[1] < b[1])

DecayEvents == {View("u1", "S1"), Complete("u1", "S1")}

\* nothing is called for one half-life
Wait(limit) ==
    /\ events # <<>>
    /\ now < limit * HalfLifeMinutes
    /\ now' = now + HalfLifeMinutes
    /\ UNCHANGED <<stories, users, events, story_transitions, global_transition_graph,
                   story_similarity_cache, theme_to_stories, heap, config, snapshot,
                   reference, call, running>>

NextDecay ==
    \/ LoadCatalog
    \/ \E e \in DecayEvents : AddEvent(e, HalfLifeMinutes, MaxDecayEvents)
    \/ Wait(MaxHalfLives)

SpecDecay == Init /\ [][NextDecay]_vars

\* the ages, at the evaluation instant `now`, of the observations that
\* _get_decayed_theme_scores weights
ObservationAges ==
    UNION {UNION {{now - users[u].theme_interactions[th][i][2] :
                        i \in 1..Len(users[u].theme_interactions[th])} :
                    th \in DOMAIN users[u].theme_interactions} :
            u \in DOMAIN users}

(***************************************************************************)
(* C23: decay: for a fixed positive half-life h, the decay weight          *)
(* 0.5^(t/h) applied to every observation is 1.0 at t = 0, exactly 0.5 at  *)
(* t = h, strictly decreasing in t, and always in (0,1] for t >= 0 (never  *)
(* exactly zero).                                                          *)
(***************************************************************************)
C23_DecayWeight ==
    \A t \in ObservationAges :
        /\ t = 0 => DecayFactor(t) = Some(0)
        /\ t = HalfLifeMinutes => DecayFactor(t) = Some(1)
        /\ DecayFactor(t) # None
        /\ Greater(DecayFactor(t), DecayFactor(t + HalfLifeMinutes))

(***************************************************************************)
(* C24: a transition is created open: immediately after the complete event *)
(* that creates it, the new StoryTransition has mood_before equal to the   *)
(* latest mood-history value recorded at or before the previous completion *)
(* (null if none), and has mood_after null and mood_delta null, whatever   *)
(* the user's current mood is; they stay null until a mood_after event for *)
(* the destination story arrives.                                          *)
(***************************************************************************)
\* this step is the mood_after event of transition i's user for its destination
MoodAfterFor(i) ==
    /\ IngestStep
    /\ IsMoodAfter(Ingested')
    /\ Ingested'.user_id = heap[i].user_id
    /\ Ingested'.data.story_id[1] = heap[i].to_story_id

C24_CreatedOpen ==
    (IngestStep /\ Len(heap') = Len(heap) + 1)
    => LET new == heap'[Len(heap')]
           u == Ingested'.user_id
       IN /\ new.mood_before = MoodReportedBy(u, users[u].last_completed_timestamp[1])
          /\ new.mood_after = None
          /\ new.mood_delta = None

C24_StaysOpen ==
    \A i \in 1..Len(heap) :
        (heap[i].mood_after = None /\ ~MoodAfterFor(i))
        => heap'[i].mood_after = None /\ heap'[i].mood_delta = None

C24_TransitionCreatedOpen == [][C24_CreatedOpen /\ C24_StaysOpen]_vars

(***************************************************************************)
(* SpecBackfill: an earlier reader has left transitions; a second reader   *)
(* completes stories and reports moods, and the earlier reader reports one *)
(* more mood.                                                              *)
(***************************************************************************)
BackfillEvents ==
    {Complete("u1", "S1"), Complete("u1", "S2"), MoodGeneral("u1", 60),
     MoodAfter("u1", "S2", 75), MoodAfter("u2", "S2", 50)}

NextBackfill ==
    \/ LoadCatalog
    \/ EarlierReader
    \/ /\ call.made.events >= Len(ReaderScript)
       /\ \E e \in BackfillEvents : AddEvent(e, 15, Len(ReaderScript) + MaxBackfillEvents)

SpecBackfill == Init /\ [][NextBackfill]_vars

\* the mood fields of a transition
Moods(transition) ==
    <<transition.mood_before, transition.mood_after, transition.mood_delta>>

\* the transitions whose mood fields this step changes
MoodsChanged == {i \in 1..Len(heap) : Moods(heap'[i]) # Moods(heap[i])}

\* the transitions of a user, oldest first, as they were created
CreatedFor(u) == {i \in 1..Len(heap) : heap[i].user_id = u}

(***************************************************************************)
(* C25: a mood_after event changes at most one transition: the most        *)
(* recently created transition of the event's user, and only when its      *)
(* to_story_id equals the event's story_id and its mood_after is null;     *)
(* every older transition of that user and every transition of other users *)
(* keeps its mood_before, mood_after and mood_delta.                       *)
(***************************************************************************)
C25_Step ==
    (IngestStep /\ IsMoodAfter(Ingested'))
    => /\ Len(heap') = Len(heap)
       /\ Cardinality(MoodsChanged) <= 1
       /\ \A i \in MoodsChanged :
             /\ i = Max(CreatedFor(Ingested'.user_id))
             /\ heap[i].to_story_id = Ingested'.data.story_id[1]
             /\ heap[i].mood_after = None

C25_MoodAfterChangesOne == [][C25_Step]_vars

\* the second reader's last transition took the mood of the event; an older
\* one to the same story, still open, and the earlier reader's were there too
C25_Witness ==
    /\ call.op = "add_event"
    /\ IsMoodAfter(Ingested)
    /\ Ingested.user_id = "u1"
    /\ Len(users["u1"].story_sequences) >= 2
    /\ heap[Last(users["u1"].story_sequences)].mood_after = Ingested.data.mood_score
    /\ heap[Last(users["u1"].story_sequences)].to_story_id = Ingested.data.story_id[1]
    /\ \E i \in CreatedFor("u1") :
          /\ i # Last(users["u1"].story_sequences)
          /\ heap[i].to_story_id = Ingested.data.story_id[1]
          /\ heap[i].mood_after = None
    /\ CreatedFor("u2") # {}

(***************************************************************************)
(* C26: in every state reachable by add_event, each user has at most one   *)
(* open transition, i.e. at most one entry of story_sequences whose        *)
(* mood_after is null - also for a user who completes three or more        *)
(* stories in a row without ever reporting a mood.                         *)
(***************************************************************************)
OpenTransitions(u) ==
    {k \in 1..Len(users[u].story_sequences) :
        heap[users[u].story_sequences[k]].mood_after = None}

C26_OneOpenTransition == \A u \in DOMAIN users : Cardinality(OpenTransitions(u)) <= 1

(***************************************************************************)
(* C27: a StoryTransition is mutated at most once after creation: once its *)
(* mood_after is non-null, no later sequence of events changes its         *)
(* mood_before, mood_after or mood_delta, and its from/to ids, user id and *)
(* timestamp never change.                                                 *)
(***************************************************************************)
Identity(transition) ==
    <<transition.from_story_id, transition.to_story_id, transition.user_id,
      transition.timestamp>>

C27_Step ==
    /\ Len(heap') >= Len(heap)
    /\ \A i \in 1..Len(heap) :
          /\ Identity(heap'[i]) = Identity(heap[i])
          /\ heap[i].mood_after # None => Moods(heap'[i]) = Moods(heap[i])
          /\ Moods(heap'[i]) # Moods(heap[i]) => heap'[i].mood_after # None

C27_MutatedAtMostOnce == [][C27_Step]_vars

\* a mood_after event came for the destination of its user's last
\* transition, which had a mood_after already and kept it
C27_Witness ==
    /\ call.op = "add_event"
    /\ IsMoodAfter(Ingested)
    /\ CreatedFor(Ingested.user_id) # {}
    /\ LET last_transition == heap[Max(CreatedFor(Ingested.user_id))]
       IN /\ last_transition.to_story_id = Ingested.data.story_id[1]
          /\ last_transition.mood_after # None
          /\ last_transition.mood_after # Ingested.data.mood_score

(***************************************************************************)
(* C28: for a transition created by a complete event while the user        *)
(* already has a current mood, mood_after is that current mood (the last   *)
(* mood reported before the destination story was completed) and          *)
(* mood_delta equals it minus mood_before, fixed at creation; the          *)
(* mood_after event later sent for the destination story changes neither   *)
(* the transition nor its entry in preferred_transitions nor the origin    *)
(* story's best-next tables. A null mood_before gives a null mood_delta.   *)
(***************************************************************************)
C28_Created ==
    (IngestStep /\ Len(heap') = Len(heap) + 1
        /\ Get(users, Ingested'.user_id, UserProfile("")).current_mood # None)
    => LET new == heap'[Len(heap')]
           current_mood == users[Ingested'.user_id].current_mood
       IN /\ new.mood_after = current_mood
          /\ new.mood_delta = IF new.mood_before = None THEN None
                              ELSE Some(current_mood[1] - new.mood_before[1])

\* the best-next tables of a story, when the catalog holds it
BestNext(catalog, story_id) ==
    IF story_id \in DOMAIN catalog
    THEN <<catalog[story_id].best_next_stories, catalog[story_id].best_next_themes>>
    ELSE <<>>

C28_Fixed ==
    (IngestStep /\ IsMoodAfter(Ingested') /\ CreatedFor(Ingested'.user_id) # {})
    => LET i == Max(CreatedFor(Ingested'.user_id))
       IN (heap[i].to_story_id = Ingested'.data.story_id[1] /\ heap[i].mood_after # None)
          => /\ heap'[i] = heap[i]
             /\ users'[Ingested'.user_id].preferred_transitions
                   = users[Ingested'.user_id].preferred_transitions
             /\ BestNext(stories', heap[i].from_story_id)
                   = BestNext(stories, heap[i].from_story_id)

DestinationsWithDelta(from_story_id) ==
    LET transitions == Get(global_transition_graph, from_story_id, EmptyMap)
    IN {to \in DOMAIN transitions :
            \E k \in 1..Len(transitions[to]) : heap[transitions[to][k]].mood_delta # None}

C29_BestNextNeverStale ==
    \A S \in DOMAIN stories :
        /\ DOMAIN stories[S].best_next_stories = DestinationsWithDelta(S)
        /\ DOMAIN stories[S].best_next_themes
              = {stories[to].theme : to \in DestinationsWithDelta(S) \cap DOMAIN stories}

(***************************************************************************)
(* C30: mood_after ordering: on a mood_after event for story s with score  *)
(* m, the improvement recorded in story_mood_impact[s] and the             *)
(* (mood-before, mood-after) pair appended to the story's associations use *)
(* the user's current mood as it was before this event; current_mood is    *)
(* set to m and (timestamp, m) is appended to mood_history only            *)
(* afterwards; when the user had no current mood, no impact, association   *)
(* or theme sample is recorded and no backfill is attempted, but           *)
(* current_mood and mood_history are still updated.                        *)
(***************************************************************************)
C30_Step ==
    (IngestStep /\ IsMoodAfter(Ingested') /\ ~call'.raised)
    => LET ev == Ingested'
           u == ev.user_id
           s == ev.data.story_id[1]
           m == ev.data.mood_score[1]
           before == ProfileBefore(u)
       IN /\ users'[u].current_mood = Some(m)
          /\ users'[u].mood_history = Append(before.mood_history, <<ev.timestamp, m>>)
          /\ IF before.current_mood # None
             THEN /\ users'[u].story_mood_impact[s]
                        = <<m - before.current_mood[1], ev.timestamp>>
                  /\ s \in DOMAIN stories
                        => stories'[s].mood_associations
                             = Append(stories[s].mood_associations,
                                      <<before.current_mood[1], m, ev.timestamp>>)
             ELSE /\ users'[u].story_mood_impact = before.story_mood_impact
                  /\ users'[u].theme_interactions = before.theme_interactions
                  /\ stories' = stories
                  /\ heap' = heap

C30_MoodAfterOrdering == [][C30_Step]_vars

\* a reader whose mood was 6.0 reported 7.5 after a catalog story: the
\* impact and the association carry the 6.0
C30_Witness ==
    /\ call.op = "add_event"
    /\ ~call.raised
    /\ IsMoodAfter(Ingested)
    /\ Ingested.user_id = "u1"
    /\ Ingested.data.mood_score = Some(75)
    /\ "S2" \in DOMAIN stories
    /\ Get(users["u1"].story_mood_impact, "S2", None) = <<15, Ingested.timestamp>>
    /\ stories["S2"].mood_associations # <<>>
    /\ Last(stories["S2"].mood_associations) = <<60, 75, Ingested.timestamp>>
    /\ users["u1"].current_mood = Some(75)
    /\ Last(users["u1"].mood_history) = <<Ingested.timestamp, 75>>

(***************************************************************************)
(* SpecThemes: a reader views, completes, favorites and searches, for      *)
(* stories in and out of the catalog                                       *)
(***************************************************************************)
ThemeEvents ==
    {View("u1", "S1"), Complete("u1", "S1"), Complete("u1", "S2"), Favorite("u1", "S2"),
     View("u1", "S9"), Favorite("u1", "S9"), Search("u1", "nature"),
     Event("u1", "search", NoData)}

NextThemes ==
    \/ LoadCatalog
    \/ \E e \in ThemeEvents : AddEvent(e, 15, MaxThemeEvents)

SpecThemes == Init /\ [][NextThemes]_vars

\* the field of the profile that keeps the timestamp of an event type
TimestampsOf(user, event_type) ==
    CASE event_type = "view" -> user.viewed_stories
      [] event_type = "complete" -> user.completed_stories
      [] event_type = "favorite" -> user.favorited_stories

\* the weight of the theme sample of an event type, in hundredths
WeightOf(event_type) ==
    CASE event_type = "view" -> 10
      [] event_type = "complete" -> 100
      [] event_type = "favorite" -> 200
      [] event_type = "search" -> 50

(***************************************************************************)
(* C31: theme samples: a view, complete or favorite event for a story in   *)
(* the catalog appends exactly one theme-interaction sample of weight 0.1, *)
(* 1.0 or 2.0 respectively to that story's theme and to no other theme;    *)
(* for a story id not in the catalog the view/complete/favorite timestamp  *)
(* is still recorded but theme_interactions is unchanged; a search event   *)
(* appends one sample of weight 0.5 when a theme is present and changes no *)
(* profile field when it is absent.                                        *)
(***************************************************************************)
C31_StoryStep ==
    (IngestStep /\ Ingested'.event_type \in {"view", "complete", "favorite"}
        /\ Ingested'.data.story_id # None)
    => LET ev == Ingested'
           u == ev.user_id
           s == ev.data.story_id[1]
           before == ProfileBefore(u)
       IN /\ Get(TimestampsOf(users'[u], ev.event_type), s, None) = ev.timestamp
          /\ users'[u].theme_interactions
                = IF s \in DOMAIN stories
                  THEN AppendAt(before.theme_interactions, stories[s].theme,
                                <<WeightOf(ev.event_type), ev.timestamp>>)
                  ELSE before.theme_interactions

C31_SearchStep ==
    (IngestStep /\ Ingested'.event_type = "search")
    => LET ev == Ingested'
           u == ev.user_id
           before == ProfileBefore(u)
       IN IF ev.data.theme # None
          THEN users'[u].theme_interactions
                 = AppendAt(before.theme_interactions, ev.data.theme[1],
                            <<WeightOf("search"), ev.timestamp>>)
          ELSE users'[u] = before

C31_ThemeSamples == [][C31_StoryStep /\ C31_SearchStep]_vars

\* a reader with samples for mystery favorited a nature story of the
\* catalog: one sample of weight 2.0 is the whole of nature's list
C31_Witness ==
    /\ call.op = "add_event"
    /\ Ingested.event_type = "favorite"
    /\ Ingested.data.story_id = Some("S2")
    /\ "S2" \in DOMAIN stories
    /\ Get(users["u1"].theme_interactions, "mystery", <<>>) # <<>>
    /\ Get(users["u1"].theme_interactions, "nature", <<>>) = <<<<200, Ingested.timestamp>>>>

(***************************************************************************)
(* SpecBuckets: a reader reports moods at the ends of the scale and at     *)
(* the edges of the ranges, and moods after a catalog story                *)
(***************************************************************************)
BucketEvents ==
    {MoodGeneral("u1", 10), MoodGeneral("u1", 30), MoodGeneral("u1", 90),
     MoodAfter("u1", "S1", 100), MoodAfter("u1", "S1", 50)}

NextBuckets ==
    \/ LoadCatalog
    \/ \E e \in BucketEvents : AddEvent(e, 15, MaxBucketEvents)

SpecBuckets == Init /\ [][NextBuckets]_vars

\* the improvements of the associations of a story whose mood-before lies
\* in [1, 10] and that _get_mood_range puts in a range, oldest first
ImprovementsLookedUp(story, range_name) ==
    LET inRange == SelectSeq(story.mood_associations,
                       LAMBDA a : 10 <= a[1] /\ a[1] <= 100
                                    /\ _get_mood_range(a[1]) = range_name)
    IN [k \in 1..Len(inRange) |-> inRange[k][2] - inRange[k][1]]

\* the improvements a bucket of mood_effectiveness was computed from
ImprovementsBucketed(story, range_name) ==
    LET samples == Get(story.mood_effectiveness, range_name, <<>>)
    IN [k \in 1..Len(samples) |-> samples[k].value]

(***************************************************************************)
(* C32: mood bucketing is total and single-valued on [1,10]: every mood    *)
(* association whose mood-before value v satisfies 1 <= v <= 10            *)
(* contributes to exactly one mood_effectiveness bucket (v = 10 to         *)
(* very_high), and that bucket is the one _get_mood_range(v) names when    *)
(* the scoring engine looks up effectiveness for a current mood v.         *)
(***************************************************************************)
C32_BucketingTotal ==
    \A id \in DOMAIN stories :
        \A i \in 1..Len(mood_ranges) :
            ImprovementsBucketed(stories[id], mood_ranges[i][1])
                = ImprovementsLookedUp(stories[id], mood_ranges[i][1])

(***************************************************************************)
(* SpecMix: after an earlier reader, a reader completes stories, moves the *)
(* slider to the edges and the middle of the blended zone and asks for     *)
(* recommendations                                                         *)
(***************************************************************************)
MixEvents ==
    {Complete("u1", "S0"), Complete("u1", "S1"), SliderPosition("u1", 10),
     SliderPosition("u1", 50), SliderPosition("u1", 90), SliderPosition("u1", 95)}

NextMix ==
    \/ LoadCatalog
    \/ EarlierReader
    \/ /\ call.made.events >= Len(ReaderScript)
       /\ \E e \in MixEvents : AddEvent(e, 15, Len(ReaderScript) + MaxMixEvents)
    \/ /\ call.made.events >= Len(ReaderScript)
       /\ GetRecommendations("u1", NoContext, n_recommendations, MaxQueries)

SpecMix == Init /\ [][NextMix]_vars

\* 1 - mix and mix in thousandths, each raised to 0.2 only for a mix
\* strictly between 0.1 and 0.9
WeightsStrictlyInside(mix) ==
    LET floored(w) == IF 10 < mix /\ mix < 90 /\ w < 200 THEN 200 ELSE w
    IN [individual |-> floored((100 - mix) * 10), collaborative |-> floored(mix * 10)]

(***************************************************************************)
(* C33: mix weights: the individual weight is 1 - mix and the              *)
(* collaborative weight is mix, each raised to at least 0.2 exactly when   *)
(* mix lies strictly between 0.1 and 0.9; at the endpoints mix = 0.1 and   *)
(* mix = 0.9 and outside the interval no floor is applied (for mix = 0.1   *)
(* the collaborative weight is 0.1, for mix = 0.9 the individual weight is *)
(* 0.1): every score get_recommendations returns is the sum of the         *)
(* signals under these weights.                                            *)
(***************************************************************************)
C33_MixWeights ==
    (call.op = "get_recommendations" /\ ~call.raised)
    => \A i \in 1..Len(call.returned[1]) :
          LET user == users[call.args[1]]
              story == stories[call.returned[1][i][1]]
              w == WeightsStrictlyInside(user.recommendation_mix)
          IN call.returned[1][i][2] =
                IndividualSignals(Self, user, story, now, w.individual)
                - AvoidedThemePenalty(user, story, now)
                + CollaborativeSignals(Self, user, story, now, w.collaborative)
                + UniversalSignals(user, story, call.args[2])

\* the members of a sequence
Range(seq) == {seq[i] : i \in 1..Len(seq)}

\* a sequence that holds no member twice
NoneTwice(seq) == Cardinality(Range(seq)) = Len(seq)

(***************************************************************************)
(* C34: in every state reachable by add_story and add_event, the global    *)
(* story_transitions list contains exactly the transitions of all users'   *)
(* story_sequences, each once and with identical field values (the same    *)
(* record), the per-user order is preserved in the global order, and       *)
(* global_transition_graph[f][t] holds exactly the global transitions with *)
(* from=f and to=t.                                                        *)
(***************************************************************************)
C34_GlobalMirrorsProfiles ==
    /\ NoneTwice(story_transitions)
    /\ Range(story_transitions)
          = UNION {Range(users[u].story_sequences) : u \in DOMAIN users}
    /\ \A u \in DOMAIN users :
          users[u].story_sequences
            = SelectSeq(story_transitions, LAMBDA i : heap[i].user_id = u)
    /\ \A f \in DOMAIN global_transition_graph :
          \A t \in DOMAIN global_transition_graph[f] :
              global_transition_graph[f][t]
                = SelectSeq(story_transitions,
                      LAMBDA i : heap[i].from_story_id = f /\ heap[i].to_story_id = t)
    /\ \A i \in Range(story_transitions) :
          /\ heap[i].from_story_id \in DOMAIN global_transition_graph
          /\ heap[i].to_story_id \in DOMAIN global_transition_graph[heap[i].from_story_id]

\* both readers have transitions, the later reader's follow the earlier
\* reader's in the global list, and one pair of stories has a transition
\* of each reader
C34_Witness ==
    /\ call.op = "add_event"
    /\ {"u1", "u2"} \subseteq DOMAIN users
    /\ Len(users["u1"].story_sequences) >= 2
    /\ Len(users["u2"].story_sequences) >= 2
    /\ \E f \in DOMAIN global_transition_graph :
          \E t \in DOMAIN global_transition_graph[f] :
              {heap[i].user_id : i \in Range(global_transition_graph[f][t])}
                = {"u1", "u2"}
    /\ \E i \in Range(users["u1"].story_sequences) : heap[i].mood_after # None

\* the (to_story_id, mood_delta, timestamp) of a user's transitions from a
\* story, in the order of story_sequences
TransitionsFrom(u, f) ==
    LET own == SelectSeq(users[u].story_sequences, LAMBDA i : heap[i].from_story_id = f)
    IN [k \in 1..Len(own) |->
            <<heap[own[k]].to_story_id, heap[own[k]].mood_delta, heap[own[k]].timestamp>>]

(***************************************************************************)
(* C35: in every state reachable by add_story and add_event, each user's   *)
(* preferred_transitions index mirrors story_sequences: for every from-id  *)
(* f the list preferred_transitions[f] is, in order, the (to_story_id,     *)
(* mood_delta, timestamp) of exactly the user's transitions with from=f -  *)
(* including after a backfill has set a transition's mood_delta.           *)
(***************************************************************************)
C35_IndexMirrorsSequences ==
    \A u \in DOMAIN users :
        \A f \in DOMAIN users[u].preferred_transitions
                    \cup {heap[i].from_story_id : i \in Range(users[u].story_sequences)} :
            Get(users[u].preferred_transitions, f, <<>>) = TransitionsFrom(u, f)

\* a mood_after event has just filled the mood_after of the reader's last
\* transition, the reader has two transitions or more, and the earlier
\* reader has transitions that carry a mood_delta
C35_Witness ==
    /\ call.op = "add_event"
    /\ IsMoodAfter(Ingested)
    /\ LET u == Ingested.user_id
       IN /\ users[u].story_sequences # <<>>
          /\ heap[Last(users[u].story_sequences)].mood_after = Ingested.data.mood_score
          /\ heap[Last(users[u].story_sequences)].mood_delta = None
          /\ Len(users[u].story_sequences) >= 2
          /\ \E v \in DOMAIN users \ {u} :
                \E i \in Range(users[v].story_sequences) : heap[i].mood_delta # None

\* last_completed_story and last_completed_timestamp of a profile
LastCompleted(user) == <<user.last_completed_story, user.last_completed_timestamp>>

(***************************************************************************)
(* C36: after every complete event, whether or not it created a transition *)
(* (gap above the window, first completion), the user's                    *)
(* last_completed_story and last_completed_timestamp are the story id and  *)
(* timestamp of that event and completed_stories[last_completed_story]     *)
(* equals last_completed_timestamp; no other event type changes            *)
(* last_completed_story or last_completed_timestamp.                       *)
(***************************************************************************)
C36_Step ==
    IngestStep
    => LET ev == Ingested'
           u == ev.user_id
       IN /\ IF ev.event_type = "complete" /\ ev.data.story_id # None
             THEN /\ LastCompleted(users'[u]) = <<ev.data.story_id, Some(ev.timestamp)>>
                  /\ Get(users'[u].completed_stories, ev.data.story_id[1], None)
                        = ev.timestamp
             ELSE LastCompleted(users'[u]) = LastCompleted(ProfileBefore(u))
          /\ \A v \in DOMAIN users \ {u} : LastCompleted(users'[v]) = LastCompleted(users[v])

C36_LastCompleted == [][C36_Step]_vars

\* a reader completed a story more than the window after the completion
\* before it: no transition, and the last completion is this one
C36_Witness ==
    /\ call.op = "add_event"
    /\ Ingested.event_type = "complete"
    /\ Len(CompletionsOf(Ingested.user_id)) = 2
    /\ Ingested.timestamp - CompletionsOf(Ingested.user_id)[1].timestamp
          > transition_window_minutes
    /\ CompletionsOf(Ingested.user_id)[1].data.story_id # Ingested.data.story_id
    /\ users[Ingested.user_id].story_sequences = <<>>
    /\ LastCompleted(users[Ingested.user_id]) = <<Ingested.data.story_id, Some(Ingested.timestamp)>>

(***************************************************************************)
(* SpecPaths: after an earlier reader, a reader reports a mood, completes  *)
(* up to three stories and asks for recommendations                        *)
(***************************************************************************)
PathEvents ==
    {MoodGeneral("u1", 75), Complete("u1", "S0"), Complete("u1", "S1"),
     Complete("u1", "S2")}

NextPaths ==
    \/ LoadCatalog
    \/ EarlierReader
    \/ /\ call.made.events >= Len(ReaderScript)
       /\ \E e \in PathEvents : AddEvent(e, 15, Len(ReaderScript) + MaxPathEvents)
    \/ /\ call.made.events >= Len(ReaderScript)
       /\ GetRecommendations("u1", NoContext, n_recommendations, MaxQueries)

SpecPaths == Init /\ [][NextPaths]_vars

\* indexes to put in the place of a user's preferred_transitions: the empty
\* one, and for every pair of stories one entry with a mood_delta of 3.0
OtherIndexes ==
    LET ids == DOMAIN stories \cup {"S0"}
    IN {EmptyMap} \cup {[f \in {from} |-> <<<<to, Some(30), now>>>>] : from \in ids, to \in ids}

\* the two cross-user signals for a user and a candidate
CrossUserSignals(E, u, candidate_id) ==
    <<_collaborative_sequence_score(E, E.users[u], E.stories[candidate_id], now),
      _evaluate_path_continuation(E, get_recent_story_path(E.users[u], 2), candidate_id, now)>>

(***************************************************************************)
(* C37: a user's own transitions never feed that user's cross-user         *)
(* signals: in every reachable state, the collaborative-sequence score and *)
(* the path-continuation bonus computed for user u and any candidate are   *)
(* unchanged when u's own preferred_transitions entries are replaced by    *)
(* others; in particular the scan in the path-continuation bonus never     *)
(* matches u's own recent path against itself.                             *)
(***************************************************************************)
C37_OwnTransitionsSilent ==
    /\ (call.op = "get_recommendations" /\ ~call.raised)
         => \A candidate_id \in DOMAIN stories :
               \A index \in OtherIndexes :
                   CrossUserSignals(
                       [Self EXCEPT !.users[call.args[1]].preferred_transitions = index],
                       call.args[1], candidate_id)
                     = CrossUserSignals(Self, call.args[1], candidate_id)
    /\ \A u \in DOMAIN users :
          LET path == get_recent_story_path(users[u], 2)
              user_path == get_recent_story_path(users[u], 3)
          IN ~(Len(path) = 2 /\ Len(user_path) >= 3 /\ SubSeq(user_path, 1, 2) = path)

\* a reader with three completions and own transitions that carry a
\* mood_delta, for whom both signals of a candidate are positive
C37_Witness ==
    /\ call.op = "get_recommendations"
    /\ call.args[1] = "u1"
    /\ "u1" \in DOMAIN users
    /\ Len(get_recent_story_path(users["u1"], 3)) = 3
    /\ \E f \in DOMAIN users["u1"].preferred_transitions :
          \E i \in 1..Len(users["u1"].preferred_transitions[f]) :
              users["u1"].preferred_transitions[f][i][2] # None
    /\ \E candidate_id \in DOMAIN stories :
          /\ CrossUserSignals(Self, "u1", candidate_id)[1] > 0
          /\ CrossUserSignals(Self, "u1", candidate_id)[2] > 0

(***************************************************************************)
(* SpecTrend: a reader reports low moods and high moods after a story,     *)
(* more often than update_mood_trajectory looks back                       *)
(***************************************************************************)
TrendEvents == {MoodGeneral("u1", 30), MoodAfter("u1", "S1", 80)}

NextTrend == \E e \in TrendEvents : AddEvent(e, 15, MaxTrendEvents)

SpecTrend == Init /\ [][NextTrend]_vars

\* the values of the last 10 samples of a mood history, in tenths
LastTen(mood_history) ==
    LET n == Len(mood_history)
    IN [i \in 1..Min(n, 10) |-> mood_history[n - Min(n, 10) + i][2]]

\* the least-squares slope of values taken at 0, 1, 2, ... compared with
\* 0.2 and -0.2: sum((x - mean x)(y - mean y)) / sum((x - mean x)^2), each
\* deviation multiplied by the number of values
TrendOfSlope(y) ==
    LET n == Len(y)
        dx(i) == n * (i - 1) - SeqSum([k \in 1..n |-> k - 1])
        dy(i) == n * y[i] - SeqSum(y)
        num == SeqSum([i \in 1..n |-> dx(i) * dy(i)])
        den == SeqSum([i \in 1..n |-> dx(i) * dx(i)])
    IN IF num > 2 * den THEN "improving"
       ELSE IF num < -2 * den THEN "declining"
       ELSE "stable"

(***************************************************************************)
(* C38: mood trend: after every mood_general or mood_after event the       *)
(* user's mood_trend is one of improving, declining, stable; with fewer    *)
(* than 3 mood-history samples it is stable and volatility is 0; with 3 or *)
(* more it is decided by the least-squares slope over the last 10 samples  *)
(* only (slope > 0.2 improving, slope < -0.2 declining, otherwise stable), *)
(* so samples older than the last 10 never affect it.                      *)
(***************************************************************************)
C38_Step ==
    (IngestStep /\ Ingested'.event_type \in {"mood_general", "mood_after"} /\ ~call'.raised)
    => LET user == users'[Ingested'.user_id]
       IN /\ user.mood_trend \in {Some("improving"), Some("declining"), Some("stable")}
          /\ IF Len(user.mood_history) < 3
             THEN /\ user.mood_trend = Some("stable")
                  /\ user.mood_volatility = Some([num |-> 0, den |-> 1])
             ELSE user.mood_trend = Some(TrendOfSlope(LastTen(user.mood_history)))

C38_MoodTrend == [][C38_Step]_vars

\* eleven samples: the oldest low, the last ten high. The last ten are
\* flat, and the slope over all eleven is above 0.2
C38_Witness ==
    /\ call.op = "add_event"
    /\ "u1" \in DOMAIN users
    /\ Len(users["u1"].mood_history) = 11
    /\ users["u1"].mood_history[1][2] = 30
    /\ \A i \in 2..11 : users["u1"].mood_history[i][2] = 80
    /\ users["u1"].mood_trend = Some("stable")
    /\ TrendOfSlope([i \in 1..11 |-> users["u1"].mood_history[i][2]]) = "improving"

====
